---- MODULE Spec2Model ----
(***************************************************************************)
(* Sound board node (src/src/main.cpp, second translation unit, lines      *)
(* 283-1088): gain stage, ESP-NOW frame codec and receive path, startup,   *)
(* button debounce, the button combinator of loop() and playWAVFile.       *)
(*                                                                         *)
(* Byte strings (file names, datagrams) are sequences of numbers 0..255.   *)
(* A C array index k is the sequence index k + 1.                          *)
(***************************************************************************)
EXTENDS Integers, Sequences, FiniteSets, TLC

VARIABLES
    \* ---- gain stage harness (applyVolumeControl) ----
    gsStage,      \* "idle" | "sample" | "applied" | "raw" | "clamped" | "reclamped"
    gsSample,     \* int16_t sample
    gsVolume,     \* float volume, as the numerator of volume = gsVolume / GainDen
    gsScaled,     \* int32_t scaled just before the return statement
    gsOut,        \* the int16_t the function returns
    gsClampIn,    \* an int32_t handed to the hard clamp alone
    gsClampOut,   \* the hard clamp of gsClampIn
    gsClampAgain, \* the hard clamp of gsClampOut
    \* ---- the nodes: the globals of main.cpp, one copy per board ----
    sd,           \* the SD card in the board: [ok, dir]
    phase,        \* "boot" | "halted" | "loop": where the board's main task is
    boardId,      \* uint8_t boardId
    soundFiles,   \* String soundFiles[30], the first soundFileCount entries
    soundFileCount,
    greenSound, blueSound, yellowSound,
    isPlaying,
    recvCb,       \* TRUE once esp_now_register_recv_cb(onDataReceive) has run
    redButton, greenButton, blueButton, yellowButton,   \* ButtonState globals
    \* ---- time and the button pins ----
    now,          \* what millis() returns
    pinLow,       \* per board and button: the pin reads LOW (contact closed)
    wake,         \* per board: when the delay(10) of loop() ends
    \* ---- debounce harness: history of the levels read from one pin ----
    dbLastRead,   \* the level the last digitalRead returned
    dbReadSince,  \* the time of the first of the latest run of equal reads
    dbReadFast,   \* so far no run of equal reads has spanned 50 ms
    dbClean,      \* currentState was false when the latest run of reads began
    dbEdges,      \* how often the machine latched an edge during that run
    dbRawSince,   \* when the pin last changed level
    dbRawClean,   \* the machine was at rest, released, when the pin last went low
    dbOnTime,     \* so far every poll came exactly when delay(10) ended
    dbMissed,     \* a press held for 50 ms or more ended without an edge
    \* ---- button harness: what the latest pass of loop() did ----
    ev,           \* the event of the latest handleButtons call, Idle between passes
    chord,        \* "held" from a pass with three colour buttons pressed,
                  \* "released" once none is, "none" when one is pressed again
    stableAt,     \* per button: when currentState last became true
    staticFor,    \* per colour: its sound was played since then
    toggles,      \* how often a pin has changed level
    held,         \* how often the harness went through a long hold
    \* ---- the radio channel ----
    air,          \* the datagram being broadcast: [data, from, pending]
    rx,           \* per board, what its onDataReceive call on that datagram did
    \* ---- frame codec harness (sendSoundCommand, then onDataReceive) ----
    cxStage,      \* "idle" | "input" | "sent" | "received" | "tampered" | "rereceived"
    cxOwnId,      \* boardId of the sending board
    cxTarget,     \* targetBoard argument; also the boardId of the receiving board
    cxName,       \* soundFile argument
    cxCard,       \* SD card of the receiving board
    cxFrame,      \* the bytes handed to esp_now_send / to the receive callback
    cxRx,         \* what onDataReceive did with cxFrame
    \* ---- playback harness: the playWAVFile calls of one board ----
    pc,           \* per task: where it is in playWAVFile, "idle" outside it
    filename,     \* per task: the argument of its playWAVFile call
    audioFile,    \* per task: the File of its call: [open, size, pos]
    bytesRead,    \* per task: the local of that name, -1 while uninitialised
    opened,       \* per task: how often its call has opened a file
    closed,       \* per task: how often its call has closed one
    failed,       \* per task: an i2s_write of its call returned an error
    delivered     \* per task: the bytes its i2s_write calls took, in all

gainVars == <<gsStage, gsSample, gsVolume, gsScaled, gsOut, gsClampIn, gsClampOut,
              gsClampAgain>>

\* The globals of one program image (all boards).
buttonVars == <<redButton, greenButton, blueButton, yellowButton>>

nodeVars == <<sd, phase, boardId, soundFiles, soundFileCount, greenSound,
              blueSound, yellowSound, isPlaying, recvCb, buttonVars>>

timeVars == <<now, pinLow, wake>>

debounceVars == <<dbLastRead, dbReadSince, dbReadFast, dbClean, dbEdges, dbRawSince,
                  dbRawClean, dbOnTime, dbMissed>>

comboVars == <<ev, chord, stableAt, staticFor, toggles, held>>

radioVars == <<air, rx>>

codecVars == <<cxStage, cxOwnId, cxTarget, cxName, cxCard, cxFrame, cxRx>>

playVars == <<pc, filename, audioFile, bytesRead, opened, closed, failed, delivered>>

vars == <<gainVars, nodeVars, radioVars, codecVars, timeVars, debounceVars, comboVars, playVars>>

----------------------------------------------------------------------------
(* Machine integers *)

MinInt16 == -32768
MaxInt16 == 32767
MaxInt32 == 2147483647
MinInt32 == -MaxInt32 - 1

Int16 == MinInt16..MaxInt16

InInt32(x) == MinInt32 <= x /\ x <= MaxInt32

\* C integer division by a positive divisor: truncates toward zero.
TruncDiv(a, b) == IF a >= 0 THEN a \div b ELSE -((-a) \div b)

\* (int16_t)x for an int32_t x: keeps the low 16 bits.
CastInt16(x) == ((x + 32768) % 65536) - 32768

----------------------------------------------------------------------------
(* Gain stage: applyVolumeControl                                          *)
(*                                                                         *)
(* volume is a float.  The model takes volumes k / GainDen with GainDen a  *)
(* power of two: such a volume is an exact float, and sample * volume      *)
(* (at most 16 + GainBits + 1 significant bits) is an exact float product, *)
(* so (int32_t)(sample * volume) is the truncation of the exact quotient.  *)

GainBits == 4
GainDen == 2 ^ GainBits

\* The volumes of the model: every k / GainDen from 0 up to the first one
\* at or above 1.2.
MaxGainNum == (12 * GainDen + 9) \div 10
Gains == 0..MaxGainNum

SOFTWARE_GAIN == GainDen      \* #define SOFTWARE_GAIN 1.0

\* The samples of the model: a regular grid over int16_t plus every value
\* within EdgeWidth of a corner of the transfer curve.
SampleStride == 251
EdgeWidth == 3
CornerSamples == {MinInt16, -28000, 0, 28000, MaxInt16}
Samples ==
    {s \in Int16 :
        \/ s % SampleStride = 0
        \/ \E c \in CornerSamples : s - c <= EdgeWidth /\ c - s <= EdgeWidth}

\* int32_t scaled = (int32_t)(sample * volume);
scaleSample(sample, volume) == TruncDiv(sample * volume, GainDen)

\* A limiter whose negative branch rounds toward minus infinity.
softLimitFloor(scaled) ==
    LET s1 == IF scaled > 28000 THEN 28000 + ((scaled - 28000) \div 4) ELSE scaled
    IN  IF s1 < -28000 THEN -28000 + ((s1 + 28000) \div 4) ELSE s1

\* A limiter that folds the excess over the knee back under it.
softLimitFold(scaled) ==
    LET s1 == IF scaled > 28000 THEN 28000 - TruncDiv(scaled - 28000, 4) ELSE scaled
    IN  IF s1 < -28000 THEN -28000 - TruncDiv(s1 + 28000, 4) ELSE s1

\* The two soft-limiting statements, one after the other.
softLimit(scaled) ==
    LET s1 == IF scaled > 28000 THEN 28000 + TruncDiv(scaled - 28000, 4) ELSE scaled
    IN  IF s1 < -28000 THEN -28000 + TruncDiv(s1 + 28000, 4) ELSE s1

\* A clamp that wraps once by 2^16 instead of saturating.
hardClampWrap(scaled) ==
    IF scaled > 32767 THEN scaled - 65536
    ELSE IF scaled < -32768 THEN scaled + 65536 ELSE scaled

\* The two hard-clamp statements, one after the other.
hardClamp(scaled) ==
    LET s1 == IF scaled > 32767 THEN 32767 ELSE scaled
    IN  IF s1 < -32768 THEN -32768 ELSE s1

\* Scaling alone: no limiter and no clamp before the cast.
scaledUnlimited(sample, volume) == scaleSample(sample, volume)

\* The value of scaled when the return statement is reached.
scaledAtReturn(sample, volume) ==
    hardClamp(softLimit(scaleSample(sample, volume)))

\* return (int16_t)scaled;
applyVolumeControl(sample, volume) == CastInt16(scaledAtReturn(sample, volume))

\* Every value an int32_t expression of applyVolumeControl takes.
Intermediates(sample, volume) ==
    LET s0 == scaleSample(sample, volume)
        s1 == softLimit(s0)
    IN  {s0, s0 - 28000, s0 + 28000, s1, hardClamp(s1)}

\* The int32_t values handed to the hard clamp alone.
ClampStride == 9973
ClampInputs ==
    {MinInt32, MinInt32 + 1, MaxInt32 - 1, MaxInt32, -65537, -65536, 65535, 65536}
    \cup {x * ClampStride : x \in -12..12}
    \cup {x \in -32800..32800 : x < -32760 \/ x > 32760 \/ (x < 3 /\ x > -3)}

----------------------------------------------------------------------------
(* Byte strings *)

Bytes == 0..255

\* "/"
Slash == <<47>>
\* ".wav" and ".WAV"
SuffixLower == <<46, 119, 97, 118>>
SuffixUpper == <<46, 87, 65, 86>>
\* "a.wav" .. "d.wav", "z.wav"
aWav == <<97>> \o SuffixLower
bWav == <<98>> \o SuffixLower
cWav == <<99>> \o SuffixLower
dWav == <<100>> \o SuffixLower
zWav == <<122>> \o SuffixLower

\* "/" + String(id) + ".txt" without the slash, for a one-digit id
IdFileName(id) == <<48 + id, 46, 116, 120, 116>>

\* String::endsWith
endsWith(str, suffix) ==
    /\ Len(str) >= Len(suffix)
    /\ SubSeq(str, Len(str) - Len(suffix) + 1, Len(str)) = suffix

\* String::compareTo (strcmp): negative, zero or positive.
RECURSIVE compareTo(_, _)
compareTo(x, y) ==
    IF x = <<>> /\ y = <<>> THEN 0
    ELSE IF x = <<>> THEN -1
    ELSE IF y = <<>> THEN 1
    ELSE IF Head(x) # Head(y) THEN Head(x) - Head(y)
    ELSE compareTo(Tail(x), Tail(y))

\* A name of len bytes, all 'n'.
LongName(len) == [i \in 1..len |-> 110]

----------------------------------------------------------------------------
(* The boards *)

NumNodes == 2
Nodes == 1..NumNodes

\* Board identities: for (uint8_t id = 1; id <= 5; id++)
MinBoardId == 1
MaxBoardId == 5
BoardIds == MinBoardId..MaxBoardId

\* String soundFiles[30]
MaxSoundFiles == 30

\* The SD cards a board can be fitted with.  dir is the root directory in
\* the order openNextFile returns it; ok is what initializeSDCard returns.
CardOf(id, wavs) == [ok |-> TRUE, dir |-> <<IdFileName(id)>> \o wavs]
GoodCards ==
    { CardOf(1, <<cWav, aWav, bWav>>),
      CardOf(2, <<bWav, dWav, aWav>>) }
BadCards ==
    { [ok |-> FALSE, dir |-> <<>>],                    \* SD.begin fails
      [ok |-> TRUE, dir |-> <<aWav, bWav, cWav>>],     \* no identity marker
      CardOf(2, <<bWav, aWav>>) }                      \* two sound files
Cards == GoodCards \cup BadCards
\* The slot of a board that has not looked at its card yet.
NoCard == [ok |-> FALSE, dir |-> <<>>]

\* SD.exists(path) on a card: the path of a file of the root directory.
SDexists(card, path) ==
    \E i \in 1..Len(card.dir) : path = Slash \o card.dir[i]

\* loadBoardId: the first id whose marker exists, 0 when none does
\* (the function then returns false and boardId keeps its initial 0).
RECURSIVE loadBoardIdFrom(_, _)
loadBoardIdFrom(card, id) ==
    IF id > MaxBoardId THEN 0
    ELSE IF SDexists(card, Slash \o IdFileName(id)) THEN id
    ELSE loadBoardIdFrom(card, id + 1)
loadBoardId(card) == loadBoardIdFrom(card, MinBoardId)

\* discoverSoundFiles, the directory scan: the .wav/.WAV names, at most 30.
RECURSIVE scanDir(_, _)
scanDir(dir, found) ==
    IF dir = <<>> THEN found
    ELSE LET name == Head(dir)
             keep == /\ (endsWith(name, SuffixLower) \/ endsWith(name, SuffixUpper))
                     /\ Len(found) < MaxSoundFiles
         IN  scanDir(Tail(dir), IF keep THEN Append(found, name) ELSE found)

\* discoverSoundFiles, the exchange sort (C index i is i + 1 here).
swap(a, i, j) == [a EXCEPT ![i] = a[j], ![j] = a[i]]
RECURSIVE sortInner(_, _, _)
sortInner(a, i, j) ==
    IF j > Len(a) THEN a
    ELSE sortInner(IF compareTo(a[i], a[j]) > 0 THEN swap(a, i, j) ELSE a, i, j + 1)
RECURSIVE sortOuter(_, _)
sortOuter(a, i) ==
    IF i >= Len(a) THEN a ELSE sortOuter(sortInner(a, i, i + 1), i + 1)

discoverSoundFiles(card) ==
    LET found == scanDir(card.dir, <<>>)
    IN  IF Len(found) > 1 THEN sortOuter(found, 1) ELSE found

----------------------------------------------------------------------------
(* Buttons *)

DEBOUNCE_DELAY == 50
\* delay(10) in loop()
LoopDelay == 10
\* #define DUAL_PRESS_WINDOW 100: defined, and used by no function.
DUAL_PRESS_WINDOW == 100

\* The board whose buttons are driven.
Dut == CHOOSE n \in Nodes : \A m \in Nodes : n <= m

ButtonNames == {"red", "green", "blue", "yellow"}

\* ButtonState x = {pin, false, false, 0, false}
InitButtonState ==
    [currentState |-> FALSE, lastState |-> FALSE, lastDebounceTime |-> 0,
     pressed |-> FALSE]

InitButtons ==
    /\ redButton = [n \in Nodes |-> InitButtonState]
    /\ greenButton = [n \in Nodes |-> InitButtonState]
    /\ blueButton = [n \in Nodes |-> InitButtonState]
    /\ yellowButton = [n \in Nodes |-> InitButtonState]

InitTime ==
    /\ now = 0
    /\ pinLow = [n \in Nodes |-> [b \in ButtonNames |-> FALSE]]
    /\ wake = [n \in Nodes |-> 0]

\* An updateButton that takes the level once the delay has passed, not
\* once more than the delay has passed.
updateButtonAtDelay(btn, reading, millis) ==
    LET since == IF reading # btn.lastState THEN millis ELSE btn.lastDebounceTime
        fire == (millis - since) >= DEBOUNCE_DELAY
        change == fire /\ reading # btn.currentState
    IN  [currentState |-> IF change THEN reading ELSE btn.currentState,
         lastState |-> reading,
         lastDebounceTime |-> since,
         pressed |-> IF change /\ reading THEN TRUE ELSE btn.pressed]

\* An updateButton that never restarts the debounce timer.
updateButtonNoRestart(btn, reading, millis) ==
    LET fire == (millis - btn.lastDebounceTime) > DEBOUNCE_DELAY
        change == fire /\ reading # btn.currentState
    IN  [currentState |-> IF change THEN reading ELSE btn.currentState,
         lastState |-> reading,
         lastDebounceTime |-> btn.lastDebounceTime,
         pressed |-> IF change /\ reading THEN TRUE ELSE btn.pressed]

\* An updateButton without the debounce timer: the level read is taken at
\* once.
updateButtonNoDebounce(btn, reading, millis) ==
    LET since == IF reading # btn.lastState THEN millis ELSE btn.lastDebounceTime
        change == reading # btn.currentState
    IN  [currentState |-> IF change THEN reading ELSE btn.currentState,
         lastState |-> reading,
         lastDebounceTime |-> since,
         pressed |-> IF change /\ reading THEN TRUE ELSE btn.pressed]

\* An updateButton that takes the edge flag back when the button is
\* released.
updateButtonClearOnRelease(btn, reading, millis) ==
    LET since == IF reading # btn.lastState THEN millis ELSE btn.lastDebounceTime
        fire == (millis - since) > DEBOUNCE_DELAY
        change == fire /\ reading # btn.currentState
    IN  [currentState |-> IF change THEN reading ELSE btn.currentState,
         lastState |-> reading,
         lastDebounceTime |-> since,
         pressed |-> IF change THEN reading ELSE btn.pressed]

\* updateButton(btn): the ButtonState it leaves, reading being
\* digitalRead(btn->pin) == LOW and millis what millis() returns.
updateButton(btn, reading, millis) ==
    LET since == IF reading # btn.lastState THEN millis ELSE btn.lastDebounceTime
        fire == (millis - since) > DEBOUNCE_DELAY
        change == fire /\ reading # btn.currentState
    IN  [currentState |-> IF change THEN reading ELSE btn.currentState,
         lastState |-> reading,
         lastDebounceTime |-> since,
         pressed |-> IF change /\ reading THEN TRUE ELSE btn.pressed]

\* The globals as the C++ initialisers leave them.
InitNodes ==
    /\ sd = [n \in Nodes |-> NoCard]
    /\ phase = [n \in Nodes |-> "boot"]
    /\ boardId = [n \in Nodes |-> 0]
    /\ soundFiles = [n \in Nodes |-> <<>>]
    /\ soundFileCount = [n \in Nodes |-> 0]
    /\ greenSound = [n \in Nodes |-> <<>>]
    /\ blueSound = [n \in Nodes |-> <<>>]
    /\ yellowSound = [n \in Nodes |-> <<>>]
    /\ isPlaying = [n \in Nodes |-> FALSE]
    /\ recvCb = [n \in Nodes |-> FALSE]
    /\ InitButtons

\* A setup() that goes on to loop() without its three sounds.
SetupNoSoundCheck(n, card, espNowOk) ==
    /\ phase[n] = "boot"
    /\ sd' = [sd EXCEPT ![n] = card]
    /\ LET id == IF card.ok THEN loadBoardId(card) ELSE 0
           files == IF card.ok /\ id # 0 THEN discoverSoundFiles(card) ELSE <<>>
           assigned == Len(files) >= 3
           green == IF assigned THEN files[1] ELSE <<>>
           blue == IF assigned THEN files[2] ELSE <<>>
           yellow == IF assigned THEN files[3] ELSE <<>>
           halts == \/ ~card.ok
                    \/ id = 0
       IN  /\ boardId' = [boardId EXCEPT ![n] = id]
           /\ soundFiles' = [soundFiles EXCEPT ![n] = files]
           /\ soundFileCount' = [soundFileCount EXCEPT ![n] = Len(files)]
           /\ greenSound' = [greenSound EXCEPT ![n] = green]
           /\ blueSound' = [blueSound EXCEPT ![n] = blue]
           /\ yellowSound' = [yellowSound EXCEPT ![n] = yellow]
           /\ phase' = [phase EXCEPT ![n] = IF halts THEN "halted" ELSE "loop"]
           /\ recvCb' = [recvCb EXCEPT ![n] = ~halts /\ espNowOk]
    /\ UNCHANGED <<isPlaying, buttonVars>>

\* A setup() that a board in loop() may run again, on the card then in
\* its slot.
SetupAgain(n, card, espNowOk) ==
    /\ phase[n] \in {"boot", "loop"}
    /\ sd' = [sd EXCEPT ![n] = card]
    /\ LET id == IF card.ok THEN loadBoardId(card) ELSE 0
           files == IF card.ok /\ id # 0 THEN discoverSoundFiles(card) ELSE <<>>
           assigned == Len(files) >= 3
           green == IF assigned THEN files[1] ELSE <<>>
           blue == IF assigned THEN files[2] ELSE <<>>
           yellow == IF assigned THEN files[3] ELSE <<>>
           halts == \/ ~card.ok
                    \/ id = 0
                    \/ Len(green) = 0 \/ Len(blue) = 0 \/ Len(yellow) = 0
       IN  /\ boardId' = [boardId EXCEPT ![n] = id]
           /\ soundFiles' = [soundFiles EXCEPT ![n] = files]
           /\ soundFileCount' = [soundFileCount EXCEPT ![n] = Len(files)]
           /\ greenSound' = [greenSound EXCEPT ![n] = green]
           /\ blueSound' = [blueSound EXCEPT ![n] = blue]
           /\ yellowSound' = [yellowSound EXCEPT ![n] = yellow]
           /\ phase' = [phase EXCEPT ![n] = IF halts THEN "halted" ELSE "loop"]
           /\ recvCb' = [recvCb EXCEPT ![n] = ~halts /\ espNowOk]
    /\ UNCHANGED <<isPlaying, buttonVars>>

\* setup() of board n, from reset to the first loop() or to a halt loop.
\* card is the SD card it finds in its slot, espNowOk what esp_now_init
\* returns.
Setup(n, card, espNowOk) ==
    /\ phase[n] = "boot"
    /\ sd' = [sd EXCEPT ![n] = card]
    /\ LET id == IF card.ok THEN loadBoardId(card) ELSE 0
           files == IF card.ok /\ id # 0 THEN discoverSoundFiles(card) ELSE <<>>
           assigned == Len(files) >= 3
           green == IF assigned THEN files[1] ELSE <<>>
           blue == IF assigned THEN files[2] ELSE <<>>
           yellow == IF assigned THEN files[3] ELSE <<>>
           halts == \/ ~card.ok
                    \/ id = 0
                    \/ Len(green) = 0 \/ Len(blue) = 0 \/ Len(yellow) = 0
       IN  /\ boardId' = [boardId EXCEPT ![n] = id]
           /\ soundFiles' = [soundFiles EXCEPT ![n] = files]
           /\ soundFileCount' = [soundFileCount EXCEPT ![n] = Len(files)]
           /\ greenSound' = [greenSound EXCEPT ![n] = green]
           /\ blueSound' = [blueSound EXCEPT ![n] = blue]
           /\ yellowSound' = [yellowSound EXCEPT ![n] = yellow]
           /\ phase' = [phase EXCEPT ![n] = IF halts THEN "halted" ELSE "loop"]
           /\ recvCb' = [recvCb EXCEPT ![n] = ~halts /\ espNowOk]
    /\ UNCHANGED <<isPlaying, buttonVars>>

----------------------------------------------------------------------------
(* struct ESPNowMessage and the frame codec *)

\* The members laid out back to back, as a packed struct would be.
PackedFields ==
    << [name |-> "senderBoardId", size |-> 1,  align |-> 1],
       [name |-> "targetBoardId", size |-> 1,  align |-> 1],
       [name |-> "soundFile",     size |-> 64, align |-> 1],
       [name |-> "timestamp",     size |-> 4,  align |-> 1],
       [name |-> "checksum",      size |-> 1,  align |-> 1] >>

\* The members in declaration order, with the size and the alignment the
\* ESP32-C3 (RISC-V ilp32) ABI gives their types.  The struct is not packed.
MsgFields ==
    << [name |-> "senderBoardId", size |-> 1,  align |-> 1],
       [name |-> "targetBoardId", size |-> 1,  align |-> 1],
       [name |-> "soundFile",     size |-> 64, align |-> 1],
       [name |-> "timestamp",     size |-> 4,  align |-> 4],
       [name |-> "checksum",      size |-> 1,  align |-> 1] >>


AlignUp(x, a) == ((x + a - 1) \div a) * a

RECURSIVE fieldOffset(_, _)
fieldOffset(fields, i) ==
    IF i = 1 THEN 0
    ELSE AlignUp(fieldOffset(fields, i - 1) + fields[i - 1].size, fields[i].align)

RECURSIVE maxAlign(_, _)
maxAlign(fields, i) ==
    IF i = 0 THEN 1
    ELSE LET m == maxAlign(fields, i - 1)
         IN  IF fields[i].align > m THEN fields[i].align ELSE m

structSize(fields) ==
    AlignUp(fieldOffset(fields, Len(fields)) + fields[Len(fields)].size,
            maxAlign(fields, Len(fields)))

offsetIn(fields, name) ==
    fieldOffset(fields, CHOOSE i \in 1..Len(fields) : fields[i].name = name)

\* The bytes of a struct whose members hold values (one byte string per
\* member, in declaration order); junk fills the padding.
RECURSIVE layOut(_, _, _, _)
layOut(fields, values, junk, i) ==
    IF i = 0 THEN <<>>
    ELSE LET before == layOut(fields, values, junk, i - 1)
             gap == fieldOffset(fields, i) - Len(before)
         IN  before \o [k \in 1..gap |-> junk] \o values[i]
structImage(fields, values, junk) ==
    LET members == layOut(fields, values, junk, Len(fields))
    IN  members \o [k \in 1..(structSize(fields) - Len(members)) |-> junk]

\* sizeof(ESPNowMessage)
sizeofESPNowMessage == structSize(MsgFields)

\* offsetof(ESPNowMessage, member)
offSender == offsetIn(MsgFields, "senderBoardId")
offTarget == offsetIn(MsgFields, "targetBoardId")
offSoundFile == offsetIn(MsgFields, "soundFile")
offTimestamp == offsetIn(MsgFields, "timestamp")
offChecksum == offsetIn(MsgFields, "checksum")

\* sizeof(msg.soundFile)
sizeofSoundFile == MsgFields[3].size

\* Member reads on the bytes of a struct (mem[1] is the byte at &msg).
senderBoardId(mem) == mem[offSender + 1]
targetBoardId(mem) == mem[offTarget + 1]
checksumOf(mem) == mem[offChecksum + 1]
soundFileAt(mem, i) == mem[offSoundFile + i + 1]

\* The C string that starts at byte offset off of mem: the bytes before the
\* first zero.  mem ends with a zero (see MemoryAt).
strlenAt(mem, off) ==
    CHOOSE n \in 0..(Len(mem) - off) :
        /\ off + n >= Len(mem) \/ mem[off + n + 1] = 0
        /\ \A k \in 1..n : mem[off + k] # 0
cString(mem, off) == [k \in 1..strlenAt(mem, off) |-> mem[off + k]]

\* String(msg.soundFile)
soundFileString(mem) == cString(mem, offSoundFile)

\* The index at which the for loop of calculateChecksum, started at index
\* i, stops: the first zero byte of soundFile, or its size.
loopEnd(mem, i) ==
    CHOOSE e \in i..sizeofSoundFile :
        /\ e = sizeofSoundFile \/ soundFileAt(mem, e) = 0
        /\ \A k \in i..(e - 1) : soundFileAt(mem, k) # 0

\* sum += msg->soundFile[k] for k = lo .. hi - 1, from 0, sum being
\* uint8_t.  Addition that wraps at 256 may be taken in any grouping; here
\* it is taken by halves.
RECURSIVE addBytes(_, _, _)
addBytes(mem, lo, hi) ==
    IF hi <= lo THEN 0
    ELSE IF hi = lo + 1 THEN soundFileAt(mem, lo)
    ELSE (addBytes(mem, lo, (lo + hi) \div 2)
              + addBytes(mem, (lo + hi) \div 2, hi)) % 256

\* The for loop of calculateChecksum from index i on, sum being uint8_t.
checksumLoop(mem, i, sum) == (sum + addBytes(mem, i, loopEnd(mem, i))) % 256

\* A checksum that leaves the target out of the sum.
calculateChecksumNoTarget(mem) ==
    checksumLoop(mem, 0, (0 + senderBoardId(mem)) % 256)

\* calculateChecksum: a uint8_t sum, so every addition wraps at 256.
calculateChecksum(mem) ==
    checksumLoop(mem, 0, (((0 + senderBoardId(mem)) % 256) + targetBoardId(mem)) % 256)

\* The check of validateMessage that fails first on the struct at mem for a
\* board fitted with card: "sender", "target", "checksum", "file", or "ok".
validateReason(card, mem) ==
    IF senderBoardId(mem) < MinBoardId \/ senderBoardId(mem) > MaxBoardId
    THEN "sender"
    ELSE IF targetBoardId(mem) < MinBoardId \/ targetBoardId(mem) > MaxBoardId
    THEN "target"
    ELSE IF checksumOf(mem) # calculateChecksum(mem)
    THEN "checksum"
    ELSE IF ~SDexists(card, Slash \o soundFileString(mem))
    THEN "file"
    ELSE "ok"

\* A validation without the checksum comparison.
validateMessageNoChecksum(card, mem) ==
    validateReason(card, mem) \in {"ok", "checksum"}
        /\ SDexists(card, Slash \o soundFileString(mem))

\* validateMessage
validateMessage(card, mem) == validateReason(card, mem) = "ok"

\* uint32_t in memory, little-endian.
le32(x) == [i \in 1..4 |-> (x \div (256 ^ (i - 1))) % 256]

\* strncpy(dst, src, n) on a dst of n bytes: the first n bytes of src, then
\* zeros up to n.
strncpy(src, n) == [i \in 1..n |-> IF i <= Len(src) THEN src[i] ELSE 0]

\* sendSoundCommand with the two identities stored in each other's member.
messageOfSwapped(ownId, targetBoard, soundFile, millis, junk) ==
    LET file64 == strncpy(soundFile, sizeofSoundFile - 1) \o <<0>>
        draft == structImage(MsgFields,
                             <<<<targetBoard>>, <<ownId>>, file64, le32(millis), <<0>>>>,
                             junk)
    IN  [draft EXCEPT ![offChecksum + 1] = calculateChecksum(draft)]

\* sendSoundCommand, the message it builds: ownId is the global boardId,
\* millis what millis() returns, junk the stale stack bytes in the padding
\* (the struct is a local that is never zeroed).
messageOf(ownId, targetBoard, soundFile, millis, junk) ==
    LET file64 == strncpy(soundFile, sizeofSoundFile - 1) \o <<0>>
        draft == structImage(MsgFields,
                             <<<<ownId>>, <<targetBoard>>, file64, le32(millis), <<0>>>>,
                             junk)
    IN  [draft EXCEPT ![offChecksum + 1] = calculateChecksum(draft)]

\* memcpy(&msg, data, sizeof(msg)) seen as memory: the struct, then the
\* stack bytes that follow it (after), up to some zero byte.
MemoryAt(data, after) == SubSeq(data, 1, sizeofESPNowMessage) \o after \o <<0>>

\* The stack bytes that may follow the local msg of onDataReceive.
StackAfter == {<<>>, <<33>>}

\* What millis() may return in sendSoundCommand.
Clock == {0, 16909060}
\* The pairs <<millis(), stale stack byte>> a send is modelled with.
SendConditions == {<<0, 0>>, <<16909060, 165>>}

----------------------------------------------------------------------------
(* The receive path *)

\* A callback that does not compare the target with the board's identity.
onDataReceiveNoFilter(ownId, card, data, after) ==
    IF Len(data) # sizeofESPNowMessage
    THEN [result |-> "size", copied |-> FALSE, validated |-> FALSE,
          existsChecked |-> FALSE, plays |-> <<>>]
    ELSE LET mem == MemoryAt(data, after)
             why == validateReason(card, mem)
         IN  IF validateMessage(card, mem)
             THEN [result |-> "played", copied |-> TRUE, validated |-> TRUE,
                   existsChecked |-> why \in {"file", "ok"},
                   plays |-> <<Slash \o soundFileString(mem)>>]
             ELSE [result |-> why, copied |-> TRUE, validated |-> TRUE,
                   existsChecked |-> why \in {"file", "ok"},
                   plays |-> <<>>]

\* A callback that hands msg.soundFile to playWAVFile as it is.
onDataReceiveNoSlash(ownId, card, data, after) ==
    IF Len(data) # sizeofESPNowMessage
    THEN [result |-> "size", copied |-> FALSE, validated |-> FALSE,
          existsChecked |-> FALSE, plays |-> <<>>]
    ELSE LET mem == MemoryAt(data, after)
         IN  IF targetBoardId(mem) # ownId
             THEN [result |-> "target", copied |-> TRUE, validated |-> FALSE,
                   existsChecked |-> FALSE, plays |-> <<>>]
             ELSE LET why == validateReason(card, mem)
                  IN  IF validateMessage(card, mem)
                      THEN [result |-> "played", copied |-> TRUE, validated |-> TRUE,
                            existsChecked |-> why \in {"file", "ok"},
                            plays |-> <<soundFileString(mem)>>]
                      ELSE [result |-> why, copied |-> TRUE, validated |-> TRUE,
                            existsChecked |-> why \in {"file", "ok"},
                            plays |-> <<>>]

\* A callback that also drops the frames that carry its own identity as
\* the sender.
onDataReceiveNotOwn(ownId, card, data, after) ==
    IF Len(data) # sizeofESPNowMessage
    THEN [result |-> "size", copied |-> FALSE, validated |-> FALSE,
          existsChecked |-> FALSE, plays |-> <<>>]
    ELSE LET mem == MemoryAt(data, after)
         IN  IF targetBoardId(mem) # ownId
             THEN [result |-> "target", copied |-> TRUE, validated |-> FALSE,
                   existsChecked |-> FALSE, plays |-> <<>>]
             ELSE IF senderBoardId(mem) = ownId
             THEN [result |-> "sender", copied |-> TRUE, validated |-> FALSE,
                   existsChecked |-> FALSE, plays |-> <<>>]
             ELSE LET why == validateReason(card, mem)
                  IN  IF validateMessage(card, mem)
                      THEN [result |-> "played", copied |-> TRUE, validated |-> TRUE,
                            existsChecked |-> why \in {"file", "ok"},
                            plays |-> <<Slash \o soundFileString(mem)>>]
                      ELSE [result |-> why, copied |-> TRUE, validated |-> TRUE,
                            existsChecked |-> why \in {"file", "ok"},
                            plays |-> <<>>]

\* onDataReceive on a board with identity ownId and card, for a datagram
\* data: what the call did.  result is "size" (length rejected), "target"
\* (not addressed to this board), the failed check of validateMessage, or
\* "played"; copied tells whether memcpy ran, validated whether
\* validateMessage was called, existsChecked whether SD.exists was called
\* on the file path, plays lists the arguments of the playWAVFile calls.
onDataReceive(ownId, card, data, after) ==
    IF Len(data) # sizeofESPNowMessage
    THEN [result |-> "size", copied |-> FALSE, validated |-> FALSE,
          existsChecked |-> FALSE, plays |-> <<>>]
    ELSE LET mem == MemoryAt(data, after)
         IN  IF targetBoardId(mem) # ownId
             THEN [result |-> "target", copied |-> TRUE, validated |-> FALSE,
                   existsChecked |-> FALSE, plays |-> <<>>]
             ELSE LET why == validateReason(card, mem)
                  IN  IF validateMessage(card, mem)
                      THEN [result |-> "played", copied |-> TRUE, validated |-> TRUE,
                            existsChecked |-> why \in {"file", "ok"},
                            plays |-> <<Slash \o soundFileString(mem)>>]
                      ELSE [result |-> why, copied |-> TRUE, validated |-> TRUE,
                            existsChecked |-> why \in {"file", "ok"},
                            plays |-> <<>>]

\* uint8_t getRandomBoardId(): the values the do-while loop can return.
getRandomBoardId(ownId) == {t \in BoardIds : t # ownId}

\* from is the transmitting board, 0 for a transmitter outside the model.
NoFrame == [data |-> <<>>, from |-> 0, pending |-> {}]
NoRx == [result |-> "none", copied |-> FALSE, validated |-> FALSE,
         existsChecked |-> FALSE, plays |-> <<>>]

InitRadio ==
    /\ air = NoFrame
    /\ rx = [n \in Nodes |-> NoRx]

\* Datagrams other transmitters put on the channel: well-formed records
\* from any sender (in range or not), records with a changed checksum byte,
\* and records of other lengths.
ForeignSenders == {0, 1, 2, 5, 6}
ForeignTargets == {1, 2, 3}
ForeignNames == {aWav, cWav, zWav, IdFileName(2)}
WellFormedFrames ==
    {messageOf(s, t, aWav, 0, 0) : s \in ForeignSenders, t \in {1, 2}}
        \cup {messageOf(1, t, f, 0, 0) : t \in ForeignTargets, f \in ForeignNames}
TamperBase == {messageOf(1, t, aWav, 0, 0) : t \in {1, 2}}
ChecksumDeltas == {1, 128, 255}
withChecksum(mem, c) == [mem EXCEPT ![offChecksum + 1] = c]
ChecksumTampered ==
    {withChecksum(m, (checksumOf(m) + d) % 256) : m \in TamperBase, d \in ChecksumDeltas}
\* The record of m laid out without padding (71 bytes).
packedForm(m) ==
    structImage(PackedFields,
                << <<senderBoardId(m)>>, <<targetBoardId(m)>>,
                   SubSeq(m, offSoundFile + 1, offSoundFile + sizeofSoundFile),
                   SubSeq(m, offTimestamp + 1, offTimestamp + 4),
                   <<checksumOf(m)>> >>,
                0)
WrongLength ==
    UNION {{packedForm(m), SubSeq(m, 1, Len(m) - 1), m \o <<0>>} : m \in TamperBase}
\* A record for board 2 whose soundFile holds 64 bytes 'n' and no zero
\* byte, with the checksum of these bytes, non-zero padding and a
\* timestamp without a zero byte.
NoTerminator ==
    {withChecksum(d, calculateChecksum(d)) :
        d \in {[k \in 1..sizeofESPNowMessage |->
                   IF k > offSoundFile /\ k <= offSoundFile + sizeofSoundFile
                   THEN 110 ELSE m[k]] : m \in {messageOf(1, 2, aWav, 16909060, 165)}}}
ForeignDatagrams ==
    WellFormedFrames \cup ChecksumTampered \cup WrongLength \cup NoTerminator

\* A transmitter outside the model broadcasts data.  The channel carries
\* one datagram at a time.
Inject(data) ==
    /\ air = NoFrame
    /\ air' = [data |-> data, from |-> 0, pending |-> Nodes]
    /\ UNCHANGED <<rx, gainVars, nodeVars, codecVars, timeVars, debounceVars,
                   comboVars, playVars>>

\* The datagram leaves the channel; boards that have not received it by now
\* never do (the link is best-effort).
FrameGone ==
    /\ air # NoFrame
    /\ air' = NoFrame
    /\ rx' = [n \in Nodes |-> NoRx]
    /\ UNCHANGED <<gainVars, nodeVars, codecVars, timeVars, debounceVars,
                   comboVars, playVars>>

\* The body of handleRedButtonPress once the red edge has been consumed:
\* a random other board, a random catalog entry, sendSoundCommand.  sendOk
\* tells whether esp_now_send put the frame on the channel.
RemoteTrigger(n, targetBoard, idx, millis, junk) ==
    /\ phase[n] = "loop"
    /\ air = NoFrame
    /\ targetBoard \in getRandomBoardId(boardId[n])
    /\ idx \in 1..soundFileCount[n]
    /\ air' = [data |-> messageOf(boardId[n], targetBoard, soundFiles[n][idx],
                                  millis, junk),
               from |-> n, pending |-> Nodes \ {n}]
    /\ UNCHANGED <<rx, gainVars, nodeVars, codecVars, timeVars, debounceVars,
                   comboVars, playVars>>

\* The receive callback of board n runs on the datagram on the channel.
\* playWAVFile, when called, runs to its end inside the callback and
\* leaves isPlaying false.
OnDataReceive(n, after) ==
    /\ phase[n] = "loop"
    /\ recvCb[n]
    /\ n \in air.pending
    /\ LET did == onDataReceive(boardId[n], sd[n], air.data, after)
       IN  /\ rx' = [rx EXCEPT ![n] = did]
           /\ isPlaying' = [isPlaying EXCEPT ![n] =
                                IF did.plays # <<>> THEN FALSE ELSE @]
    /\ air' = [air EXCEPT !.pending = @ \ {n}]
    /\ UNCHANGED <<gainVars, codecVars, timeVars, debounceVars, comboVars, playVars, buttonVars,
                   sd, phase, boardId, soundFiles, soundFileCount, greenSound,
                   blueSound, yellowSound, recvCb>>

----------------------------------------------------------------------------
(* The button combinator: handleButtons and what it calls.  The four       *)
(* ButtonState globals of a board are taken as one record bs with fields   *)
(* red, green, blue, yellow.  What a pass emits is a record: kind is the   *)
(* branch that fired, plays the arguments of its playWAVFile calls, sent   *)
(* the frames it handed to esp_now_send with what esp_now_send returned.   *)

Colours == {"green", "blue", "yellow"}

NoEvent == [kind |-> "none", colour |-> "", plays |-> <<>>, sent |-> <<>>]

Buttons(n) ==
    [red |-> redButton[n], green |-> greenButton[n], blue |-> blueButton[n],
     yellow |-> yellowButton[n]]

\* updateAllButtons(): pins[b] is digitalRead(pin of b) == LOW.
updateAllButtons(bs, pins, millis) ==
    [red |-> updateButton(bs.red, pins["red"], millis),
     green |-> updateButton(bs.green, pins["green"], millis),
     blue |-> updateButton(bs.blue, pins["blue"], millis),
     yellow |-> updateButton(bs.yellow, pins["yellow"], millis)]

countPressedButtons(bs) ==
    (IF bs.green.currentState THEN 1 ELSE 0)
        + (IF bs.blue.currentState THEN 1 ELSE 0)
        + (IF bs.yellow.currentState THEN 1 ELSE 0)

\* getRandomSound(): idx - 1 is esp_random() % soundFileCount.
getRandomSound(files, count, idx) == IF count = 0 THEN <<>> ELSE files[idx]

\* A single-press handler whose green branch plays the blue sound.
handleSingleButtonPressWrongSlot(bs, sounds) ==
    IF bs.green.pressed
    THEN [bs |-> [bs EXCEPT !.green.pressed = FALSE],
          ev |-> [kind |-> "PlayStatic", colour |-> "green",
                  plays |-> <<Slash \o sounds.blue>>, sent |-> <<>>]]
    ELSE IF bs.blue.pressed
    THEN [bs |-> [bs EXCEPT !.blue.pressed = FALSE],
          ev |-> [kind |-> "PlayStatic", colour |-> "blue",
                  plays |-> <<Slash \o sounds.blue>>, sent |-> <<>>]]
    ELSE IF bs.yellow.pressed
    THEN [bs |-> [bs EXCEPT !.yellow.pressed = FALSE],
          ev |-> [kind |-> "PlayStatic", colour |-> "yellow",
                  plays |-> <<Slash \o sounds.yellow>>, sent |-> <<>>]]
    ELSE [bs |-> bs, ev |-> NoEvent]

\* A single-press handler with three separate tests instead of an else-if
\* chain: it plays the sound of every colour whose edge is latched.
handleSingleButtonPressAll(bs, sounds) ==
    LET hit == {c \in Colours : bs[c].pressed}
        play(c) == IF c \in hit THEN <<Slash \o sounds[c]>> ELSE <<>>
    IN  [bs |-> [bs EXCEPT !.green.pressed = FALSE, !.blue.pressed = FALSE,
                           !.yellow.pressed = FALSE],
         ev |-> IF hit = {} THEN NoEvent
                ELSE [kind |-> "PlayStatic",
                      colour |-> IF "green" \in hit THEN "green"
                                 ELSE IF "blue" \in hit THEN "blue" ELSE "yellow",
                      plays |-> play("green") \o play("blue") \o play("yellow"),
                      sent |-> <<>>]]

\* handleSingleButtonPress(): the first colour, in the order green, blue,
\* yellow, whose isButtonPressed returns true (clearing its flag) plays
\* "/" + its sound.  sounds is [green, blue, yellow].
handleSingleButtonPress(bs, sounds) ==
    IF bs.green.pressed
    THEN [bs |-> [bs EXCEPT !.green.pressed = FALSE],
          ev |-> [kind |-> "PlayStatic", colour |-> "green",
                  plays |-> <<Slash \o sounds.green>>, sent |-> <<>>]]
    ELSE IF bs.blue.pressed
    THEN [bs |-> [bs EXCEPT !.blue.pressed = FALSE],
          ev |-> [kind |-> "PlayStatic", colour |-> "blue",
                  plays |-> <<Slash \o sounds.blue>>, sent |-> <<>>]]
    ELSE IF bs.yellow.pressed
    THEN [bs |-> [bs EXCEPT !.yellow.pressed = FALSE],
          ev |-> [kind |-> "PlayStatic", colour |-> "yellow",
                  plays |-> <<Slash \o sounds.yellow>>, sent |-> <<>>]]
    ELSE [bs |-> bs, ev |-> NoEvent]

\* handleDualButtonPress(): only when exactly two colour buttons are
\* pressed; randomSound is what getRandomSound returned.
handleDualButtonPress(bs, randomSound) ==
    IF countPressedButtons(bs) = 2
    THEN [bs |-> [bs EXCEPT !.green.pressed = FALSE, !.blue.pressed = FALSE,
                            !.yellow.pressed = FALSE],
          ev |-> [kind |-> "PlayRandomLocal", colour |-> "",
                  plays |-> IF Len(randomSound) > 0
                            THEN <<Slash \o randomSound>> ELSE <<>>,
                  sent |-> <<>>]]
    ELSE [bs |-> bs, ev |-> NoEvent]

\* A red handler that sends whenever it is called, edge or no edge.
handleRedButtonPressNoEdge(bs, ownId, targetBoard, randomSound, millis, junk, ok) ==
    [bs |-> [bs EXCEPT !.red.pressed = FALSE],
     ev |-> [kind |-> "SendRemoteCommand", colour |-> "red", plays |-> <<>>,
             sent |-> IF Len(randomSound) > 0
                      THEN <<[data |-> messageOf(ownId, targetBoard, randomSound,
                                                 millis, junk),
                              ok |-> ok]>>
                      ELSE <<>>]]

\* A red handler that calls esp_now_send again when it returned an error.
handleRedButtonPressRetry(bs, ownId, targetBoard, randomSound, millis, junk, ok) ==
    IF bs.red.pressed
    THEN LET m == [data |-> messageOf(ownId, targetBoard, randomSound, millis, junk),
                   ok |-> ok]
         IN  [bs |-> [bs EXCEPT !.red.pressed = FALSE],
              ev |-> [kind |-> "SendRemoteCommand", colour |-> "red", plays |-> <<>>,
                      sent |-> IF Len(randomSound) = 0 THEN <<>>
                               ELSE IF ok THEN <<m>> ELSE <<m, m>>]]
    ELSE [bs |-> bs, ev |-> NoEvent]

\* A red handler that discards the colour edges it finds latched.
handleRedButtonPressDropsEdges(bs, ownId, targetBoard, randomSound, millis, junk, ok) ==
    LET b1 == [bs EXCEPT !.green.pressed = FALSE, !.blue.pressed = FALSE,
                         !.yellow.pressed = FALSE]
    IN  IF bs.red.pressed
        THEN [bs |-> [b1 EXCEPT !.red.pressed = FALSE],
              ev |-> [kind |-> "SendRemoteCommand", colour |-> "red", plays |-> <<>>,
                      sent |-> IF Len(randomSound) > 0
                               THEN <<[data |-> messageOf(ownId, targetBoard,
                                                          randomSound, millis, junk),
                                       ok |-> ok]>>
                               ELSE <<>>]]
        ELSE [bs |-> b1, ev |-> NoEvent]

\* handleRedButtonPress(): targetBoard is what getRandomBoardId returned,
\* randomSound what getRandomSound returned, ok whether esp_now_send
\* returned ESP_OK.
handleRedButtonPress(bs, ownId, targetBoard, randomSound, millis, junk, ok) ==
    IF bs.red.pressed
    THEN [bs |-> [bs EXCEPT !.red.pressed = FALSE],
          ev |-> [kind |-> "SendRemoteCommand", colour |-> "red", plays |-> <<>>,
                  sent |-> IF Len(randomSound) > 0
                           THEN <<[data |-> messageOf(ownId, targetBoard, randomSound,
                                                      millis, junk),
                                   ok |-> ok]>>
                           ELSE <<>>]]
    ELSE [bs |-> bs, ev |-> NoEvent]

\* A handleButtons that looks at the red button first.
handleButtonsRedFirst(bs, pins, millis, board, rnd) ==
    LET b1 == updateAllButtons(bs, pins, millis)
        randomSound == getRandomSound(board.files, board.count, rnd.idx)
    IN  IF b1.red.currentState
        THEN handleRedButtonPress(b1, board.id, rnd.target, randomSound, millis,
                                  rnd.junk, rnd.ok)
        ELSE IF countPressedButtons(b1) >= 2
        THEN handleDualButtonPress(b1, randomSound)
        ELSE handleSingleButtonPress(b1, board.sounds)

\* handleButtons(): board is [id, files, count, sounds] of the board, rnd
\* the random draws and outcomes [idx, target, junk, ok] the pass may use.
handleButtons(bs, pins, millis, board, rnd) ==
    LET b1 == updateAllButtons(bs, pins, millis)
        randomSound == getRandomSound(board.files, board.count, rnd.idx)
    IN  IF countPressedButtons(b1) >= 2
        THEN handleDualButtonPress(b1, randomSound)
        ELSE IF b1.red.currentState
        THEN handleRedButtonPress(b1, board.id, rnd.target, randomSound, millis,
                                  rnd.junk, rnd.ok)
        ELSE handleSingleButtonPress(b1, board.sounds)

----------------------------------------------------------------------------
(* Frame codec harness: one sendSoundCommand call on a board with identity *)
(* cxOwnId, and the receive callback of a board with identity cxTarget and *)
(* card cxCard run on the bytes sent, then on the same bytes with another  *)
(* checksum byte.                                                          *)

LongLen == 62
CodecNames == {aWav, zWav, LongName(LongLen)}
CodecCards ==
    { CardOf(1, <<cWav, aWav, bWav>>),
      CardOf(2, <<bWav, LongName(LongLen), aWav>>) }

CodecIdle ==
    /\ cxStage = "idle"
    /\ cxOwnId = 0
    /\ cxTarget = 0
    /\ cxName = <<>>
    /\ cxCard = [ok |-> FALSE, dir |-> <<>>]
    /\ cxFrame = <<>>
    /\ cxRx = NoRx

CodecInputs ==
    /\ cxStage = "input"
    /\ cxOwnId \in BoardIds
    /\ cxTarget \in BoardIds
    /\ cxName \in CodecNames
    /\ cxCard \in CodecCards
    /\ cxFrame = <<>>
    /\ cxRx = NoRx

\* sendSoundCommand(cxTarget, cxName) with boardId = cxOwnId.
CodecSend(millis, junk) ==
    /\ cxStage = "input"
    /\ cxStage' = "sent"
    /\ cxFrame' = messageOf(cxOwnId, cxTarget, cxName, millis, junk)
    /\ UNCHANGED <<cxOwnId, cxTarget, cxName, cxCard, cxRx>>
    /\ UNCHANGED <<gainVars, nodeVars, radioVars, timeVars, debounceVars,
                   comboVars, playVars>>

\* onDataReceive on the bytes as sent.
CodecReceive(after) ==
    /\ cxStage = "sent"
    /\ cxStage' = "received"
    /\ cxRx' = onDataReceive(cxTarget, cxCard, cxFrame, after)
    /\ UNCHANGED <<cxOwnId, cxTarget, cxName, cxCard, cxFrame>>
    /\ UNCHANGED <<gainVars, nodeVars, radioVars, timeVars, debounceVars,
                   comboVars, playVars>>

\* The checksum byte of an accepted frame becomes c, another value.
CodecTamper(c) ==
    /\ cxStage = "received"
    /\ cxRx.result = "played"
    /\ c # checksumOf(cxFrame)
    /\ cxStage' = "tampered"
    /\ cxFrame' = withChecksum(cxFrame, c)
    /\ UNCHANGED <<cxOwnId, cxTarget, cxName, cxCard, cxRx>>
    /\ UNCHANGED <<gainVars, nodeVars, radioVars, timeVars, debounceVars,
                   comboVars, playVars>>

\* onDataReceive on the changed bytes.
CodecReceiveAgain(after) ==
    /\ cxStage = "tampered"
    /\ cxStage' = "rereceived"
    /\ cxRx' = onDataReceive(cxTarget, cxCard, cxFrame, after)
    /\ UNCHANGED <<cxOwnId, cxTarget, cxName, cxCard, cxFrame>>
    /\ UNCHANGED <<gainVars, nodeVars, radioVars, timeVars, debounceVars,
                   comboVars, playVars>>

----------------------------------------------------------------------------
(* Button harness: loop() of one board after its setup(), on four pins     *)
(* whose levels change between passes.  A pass is handleButtons followed   *)
(* by delay(10); playWAVFile blocks the pass for the length of the file.   *)
(* The pins change level only every PressEvery-th pass time, and the       *)
(* harness runs for MaxPasses pass times and MaxToggles level changes.     *)

PressEvery == 6
MaxPasses == 18
MaxToggles == 5
PressGrid == PressEvery * LoopDelay
BUTTON_TIMEOUT == 5000
\* A hold is the first pin-change time past BUTTON_TIMEOUT.
MaxHolds == 1
HoldTime == PressGrid * ((BUTTON_TIMEOUT \div PressGrid) + 1)
MaxButtonTime == MaxPasses * LoopDelay
\* How long a playWAVFile call blocks: a file that cannot be played
\* returns at once, a short one ends in time for the next pin change.
PlayDurations == {0, PressGrid - LoopDelay}

\* The card in the slot and what esp_now_init returns.
ButtonSetups ==
    { <<CardOf(1, <<cWav, aWav, bWav>>), TRUE>>,
      <<CardOf(2, <<bWav, dWav, LongName(LongLen) \o SuffixLower, aWav>>), FALSE>> }

\* The catalog indexes of the cards above.
DrawIndexes == UNION {1..Len(discoverSoundFiles(s[1])) : s \in ButtonSetups}

\* The random draws of one pass and what esp_now_send returns.
RandomDraws ==
    {[idx |-> i, target |-> t, junk |-> IF ok THEN 0 ELSE 165, ok |-> ok] :
        i \in DrawIndexes, t \in BoardIds, ok \in BOOLEAN}

Idle == [NoEvent EXCEPT !.kind = "idle"]

ComboIdle ==
    /\ ev = Idle
    /\ chord = "none"
    /\ stableAt = [b \in ButtonNames |-> 0]
    /\ staticFor = [c \in Colours |-> FALSE]
    /\ toggles = 0
    /\ held = 0

BoardOf(n) ==
    [id |-> boardId[n], files |-> soundFiles[n], count |-> soundFileCount[n],
     sounds |-> [green |-> greenSound[n], blue |-> blueSound[n],
                 yellow |-> yellowSound[n]]]

\* setup() of the board.
SetupDut ==
    \E s \in ButtonSetups :
        /\ Setup(Dut, s[1], s[2])
        /\ UNCHANGED <<gainVars, radioVars, codecVars, timeVars, debounceVars,
                       comboVars, playVars>>

\* The level of one pin changes.
PinToggle(b) ==
    /\ phase[Dut] = "loop"
    /\ now = wake[Dut]
    /\ now % PressGrid = 0
    /\ toggles < MaxToggles
    /\ toggles' = toggles + 1
    /\ pinLow' = [pinLow EXCEPT ![Dut][b] = ~@]
    /\ UNCHANGED <<now, wake, ev, chord, stableAt, staticFor, held, gainVars,
                   nodeVars, radioVars, codecVars, debounceVars, playVars>>

\* One pass of loop() on board n: handleButtons(), then delay(10).
HandleButtons(n, rnd, dur) ==
    /\ phase[n] = "loop"
    /\ now = wake[n]
    /\ rnd.idx \in 1..soundFileCount[n]
    /\ rnd.target \in getRandomBoardId(boardId[n])
    /\ rnd.ok => recvCb[n]
    /\ \E r \in {handleButtons(Buttons(n), pinLow[n], now, BoardOf(n), rnd)} :
       LET before == Buttons(n)
           after == r.bs
           count == countPressedButtons(after)
           end == now + (IF r.ev.plays # <<>> THEN dur ELSE 0)
           rising(c) == after[c].currentState /\ ~before[c].currentState
       IN  /\ redButton' = [redButton EXCEPT ![n] = after.red]
           /\ greenButton' = [greenButton EXCEPT ![n] = after.green]
           /\ blueButton' = [blueButton EXCEPT ![n] = after.blue]
           /\ yellowButton' = [yellowButton EXCEPT ![n] = after.yellow]
           /\ ev' = r.ev
           /\ isPlaying' = [isPlaying EXCEPT ![n] =
                                IF r.ev.plays # <<>> THEN FALSE ELSE @]
           /\ air' = IF r.ev.sent # <<>> /\ r.ev.sent[1].ok
                     THEN [data |-> r.ev.sent[1].data, from |-> n,
                           pending |-> Nodes \ {n}]
                     ELSE air
           /\ now' = end
           /\ wake' = [wake EXCEPT ![n] = end + LoopDelay]
           /\ chord' = IF count = 3 THEN "held"
                       ELSE IF chord = "held" /\ count = 0 THEN "released"
                       ELSE IF chord = "released" /\ count > 0 THEN "none"
                       ELSE chord
           /\ stableAt' = [b \in ButtonNames |->
                              IF rising(b) THEN now ELSE stableAt[b]]
           /\ staticFor' = [c \in Colours |->
                               IF r.ev.kind = "PlayStatic" /\ r.ev.colour = c
                               THEN TRUE
                               ELSE IF rising(c) THEN FALSE ELSE staticFor[c]]
    /\ UNCHANGED <<rx, pinLow, toggles, held, gainVars, codecVars, debounceVars, playVars,
                   sd, phase, boardId, soundFiles, soundFileCount, greenSound,
                   blueSound, yellowSound, recvCb>>

\* The draws and playing times that make a difference to the pass board n
\* is about to run: one where the pass uses none, every catalog index for
\* a dual press, and for a send a selection in which every catalog index,
\* every other board and both outcomes of esp_now_send occur.
DrawsAfter(n, b1) ==
    LET valid == {d \in RandomDraws : /\ d.idx \in 1..soundFileCount[n]
                                      /\ d.target \in getRandomBoardId(boardId[n])
                                      /\ d.ok => recvCb[n]}
        one == CHOOSE d \in valid : TRUE
    IN  IF phase[n] # "loop" \/ now # wake[n] \/ valid = {} THEN {}
        ELSE IF countPressedButtons(b1) = 2
        THEN {d \in valid : d.target = one.target /\ d.ok = one.ok}
        ELSE IF countPressedButtons(b1) < 2 /\ b1.red.currentState /\ b1.red.pressed
        THEN {d \in valid : (d.idx - d.target) % soundFileCount[n] = 0}
        ELSE {one}

DrawsUsed(n) == DrawsAfter(n, updateAllButtons(Buttons(n), pinLow[n], now))

DurationsAfter(b1) ==
    LET plays == \/ countPressedButtons(b1) = 2
                 \/ /\ countPressedButtons(b1) < 2
                    /\ ~b1.red.currentState
                    /\ \E c \in Colours : b1[c].pressed
    IN  IF plays THEN PlayDurations ELSE {0}

DurationsUsed(n) == DurationsAfter(updateAllButtons(Buttons(n), pinLow[n], now))

\* delay(10) ends.
ButtonTick ==
    /\ phase[Dut] = "loop"
    /\ now < wake[Dut]
    /\ wake[Dut] <= MaxButtonTime + held * HoldTime
    /\ air = NoFrame
    /\ now' = wake[Dut]
    /\ ev' = Idle
    /\ UNCHANGED <<pinLow, wake, chord, stableAt, staticFor, toggles, held, gainVars,
                   nodeVars, radioVars, codecVars, debounceVars, playVars>>

\* The passes of loop() during HoldTime in which no pin changes.  Every pin
\* is at the level its button has settled on, so updateButton leaves each
\* ButtonState as it is at whatever time it runs, and the handler that
\* handleButtons calls finds nothing to do: the pass that is due changes
\* nothing, and neither does any of the passes that follow it.
Hold ==
    /\ phase[Dut] = "loop"
    /\ now = wake[Dut]
    /\ ev = Idle
    /\ held < MaxHolds
    /\ \A b \in ButtonNames :
           /\ pinLow[Dut][b] = Buttons(Dut)[b].lastState
           /\ pinLow[Dut][b] = Buttons(Dut)[b].currentState
    /\ \A rnd \in DrawsUsed(Dut) :
           handleButtons(Buttons(Dut), pinLow[Dut], now, BoardOf(Dut), rnd)
               = [bs |-> Buttons(Dut), ev |-> NoEvent]
    /\ held' = held + 1
    /\ now' = now + HoldTime
    /\ wake' = [wake EXCEPT ![Dut] = now + HoldTime]
    /\ UNCHANGED <<pinLow, ev, chord, stableAt, staticFor, toggles, gainVars,
                   nodeVars, radioVars, codecVars, debounceVars, playVars>>

----------------------------------------------------------------------------
(* Playback harness: the playWAVFile calls of one board after its setup(). *)
(* Two tasks call playWAVFile: the task that runs loop(), from the button  *)
(* handlers, and the task that runs the receive callback, from             *)
(* onDataReceive.  A step of a call is a statement that may wait for the   *)
(* card, the device or the serial port; steps of the two tasks interleave. *)
(* isPlaying, audioBuffer and processedBuffer are globals that both calls  *)
(* use; the File and the byte counts are locals of each call.              *)

Tasks == {"loop", "radio"}

BUFFER_SIZE == 1024
\* audioFile.seek(44)
WavHeader == 44
\* File sizes: empty, a header alone, and up to MaxChunks reads of samples.
MaxChunks == 2
FileSizes ==
    {0, WavHeader} \cup {WavHeader + k * BUFFER_SIZE + 2 : k \in 0..(MaxChunks - 1)}

NoFile == [open |-> FALSE, size |-> 0, pos |-> 0]
\* size_t bytesRead; before the first read assigns it
Unset == -1

PlayIdle ==
    /\ pc = [t \in Tasks |-> "idle"]
    /\ filename = [t \in Tasks |-> <<>>]
    /\ audioFile = [t \in Tasks |-> NoFile]
    /\ bytesRead = [t \in Tasks |-> Unset]
    /\ opened = [t \in Tasks |-> 0]
    /\ closed = [t \in Tasks |-> 0]
    /\ failed = [t \in Tasks |-> FALSE]
    /\ delivered = [t \in Tasks |-> 0]

\* audioFile.available()
available(f) == f.size - f.pos

\* The File that SD.open returns for a file of size bytes, after the
\* seek(44) that a name ending in .wav or .WAV gets.
openedFile(name, size) ==
    [open |-> TRUE, size |-> size,
     pos |-> IF endsWith(name, SuffixLower) \/ endsWith(name, SuffixUpper)
             THEN (IF size < WavHeader THEN size ELSE WavHeader)
             ELSE 0]

\* Task t is inside the streaming loop of a playWAVFile call.
Streaming(t) == pc[t] \in {"loop", "write"}

\* The arguments the button handlers of board n call playWAVFile with.
PlayRequests(n) ==
    {Slash \o greenSound[n], Slash \o blueSound[n], Slash \o yellowSound[n]}
        \cup {Slash \o soundFiles[n][i] : i \in 1..soundFileCount[n]}

\* A playWAVFile that ends the call of the other task when it is entered.
EnterCancels(n, t, path) ==
    /\ pc' = [u \in Tasks |-> IF u = t THEN "open"
                               ELSE IF Streaming(u) THEN "close" ELSE pc[u]]
    /\ filename' = [filename EXCEPT ![t] = path]
    /\ isPlaying' = [isPlaying EXCEPT ![n] = TRUE]
    /\ bytesRead' = [bytesRead EXCEPT ![t] = Unset]
    /\ opened' = [opened EXCEPT ![t] = 0]
    /\ closed' = [closed EXCEPT ![t] = 0]
    /\ failed' = [failed EXCEPT ![t] = FALSE]
    /\ delivered' = [delivered EXCEPT ![t] = 0]
    /\ UNCHANGED audioFile

\* playWAVFile(path) is entered by task t of board n: isPlaying = true.
Enter(n, t, path) ==
    /\ pc' = [pc EXCEPT ![t] = "open"]
    /\ filename' = [filename EXCEPT ![t] = path]
    /\ isPlaying' = [isPlaying EXCEPT ![n] = TRUE]
    /\ bytesRead' = [bytesRead EXCEPT ![t] = Unset]
    /\ opened' = [opened EXCEPT ![t] = 0]
    /\ closed' = [closed EXCEPT ![t] = 0]
    /\ failed' = [failed EXCEPT ![t] = FALSE]
    /\ delivered' = [delivered EXCEPT ![t] = 0]
    /\ UNCHANGED audioFile

\* A button handler of loop() calls playWAVFile(path).
LoopPlay(n, path) ==
    /\ phase[n] = "loop"
    /\ pc["loop"] = "idle"
    /\ path \in PlayRequests(n)
    /\ Enter(n, "loop", path)
    /\ UNCHANGED <<gainVars, radioVars, codecVars, timeVars, debounceVars, comboVars,
                   buttonVars, sd, phase, boardId, soundFiles, soundFileCount,
                   greenSound, blueSound, yellowSound, recvCb>>

\* The receive callback of board n is invoked on the datagram on the
\* channel, up to its return or to its playWAVFile call.
Callback(n, after) ==
    /\ phase[n] = "loop"
    /\ recvCb[n]
    /\ n \in air.pending
    /\ pc["radio"] = "idle"
    /\ \E did \in {onDataReceive(boardId[n], sd[n], air.data, after)} :
           /\ rx' = [rx EXCEPT ![n] = did]
           /\ IF did.plays # <<>>
              THEN Enter(n, "radio", did.plays[1])
              ELSE UNCHANGED <<playVars, isPlaying>>
    /\ air' = [air EXCEPT !.pending = @ \ {n}]
    /\ UNCHANGED <<gainVars, codecVars, timeVars, debounceVars, comboVars, buttonVars,
                   sd, phase, boardId, soundFiles, soundFileCount, greenSound,
                   blueSound, yellowSound, recvCb>>

\* File audioFile = SD.open(filename), and on failure the return path.
\* ok is whether the card answers, size the size of the file.
Open(n, t, ok, size) ==
    /\ pc[t] = "open"
    /\ ok => SDexists(sd[n], filename[t])
    /\ IF ok
       THEN /\ audioFile' = [audioFile EXCEPT ![t] = openedFile(filename[t], size)]
            /\ opened' = [opened EXCEPT ![t] = @ + 1]
            /\ pc' = [pc EXCEPT ![t] = "loop"]
            /\ UNCHANGED isPlaying
       ELSE /\ isPlaying' = [isPlaying EXCEPT ![n] = FALSE]
            /\ pc' = [pc EXCEPT ![t] = "return"]
            /\ UNCHANGED <<audioFile, opened>>
    /\ UNCHANGED <<filename, bytesRead, closed, failed, delivered>>
    /\ UNCHANGED <<gainVars, radioVars, codecVars, timeVars, debounceVars, comboVars,
                   buttonVars, sd, phase, boardId, soundFiles, soundFileCount,
                   greenSound, blueSound, yellowSound, recvCb>>

\* What audioFile.read(audioBuffer, BUFFER_SIZE) may return: the bytes
\* that are left, up to the buffer size, or 0 when the card gives nothing.
readResults(f) ==
    {0, IF available(f) < BUFFER_SIZE THEN available(f) ELSE BUFFER_SIZE}

\* while (audioFile.available()) { bytesRead = audioFile.read(...): got is
\* what read returns.
ReadChunk(n, t, got) ==
    /\ pc[t] = "loop"
    /\ IF available(audioFile[t]) = 0
       THEN /\ pc' = [pc EXCEPT ![t] = "close"]
            /\ UNCHANGED <<audioFile, bytesRead>>
       ELSE /\ got \in readResults(audioFile[t])
            /\ bytesRead' = [bytesRead EXCEPT ![t] = got]
            /\ audioFile' = [audioFile EXCEPT ![t].pos = @ + got]
            /\ pc' = [pc EXCEPT ![t] = IF got > 0 THEN "write" ELSE "loop"]
    /\ UNCHANGED <<filename, opened, closed, failed, delivered>>
    /\ UNCHANGED <<gainVars, nodeVars, radioVars, codecVars, timeVars, debounceVars,
                   comboVars>>

\* What i2s_write may store in bytesWritten when it is asked for size
\* bytes and returns ESP_OK: all of them, or, when the 100 ms run out
\* first, what went into the DMA buffers that came free until then.
\* dma_buf_len is 128 frames of two 16-bit samples.
DmaBufBytes == 512
writeResults(size) == {0, size} \cup {b \in {DmaBufBytes} : b < size}

\* An i2s_write error that goes round the loop again.
WriteChunkRetry(n, t, ok, bytesWritten) ==
    /\ pc[t] = "write"
    /\ bytesWritten \in (IF ok THEN writeResults(bytesRead[t]) ELSE {0})
    /\ pc' = [pc EXCEPT ![t] = "loop"]
    /\ failed' = [failed EXCEPT ![t] = @ \/ ~ok]
    /\ delivered' = [delivered EXCEPT ![t] = @ + bytesWritten]
    /\ UNCHANGED <<filename, audioFile, bytesRead, opened, closed>>
    /\ UNCHANGED <<gainVars, nodeVars, radioVars, codecVars, timeVars, debounceVars,
                   comboVars>>

\* processAudioBuffer and i2s_write of the chunk: ok is result == ESP_OK,
\* bytesWritten what the call stored in bytesWritten.  An error breaks out
\* of the loop; after a partial write the task yields and the loop goes
\* on with the next read.
WriteChunk(n, t, ok, bytesWritten) ==
    /\ pc[t] = "write"
    /\ bytesWritten \in (IF ok THEN writeResults(bytesRead[t]) ELSE {0})
    /\ pc' = [pc EXCEPT ![t] = IF ok THEN "loop" ELSE "close"]
    /\ failed' = [failed EXCEPT ![t] = @ \/ ~ok]
    /\ delivered' = [delivered EXCEPT ![t] = @ + bytesWritten]
    /\ UNCHANGED <<filename, audioFile, bytesRead, opened, closed>>
    /\ UNCHANGED <<gainVars, nodeVars, radioVars, codecVars, timeVars, debounceVars,
                   comboVars>>

\* audioFile.close()
Close(n, t) ==
    /\ pc[t] = "close"
    /\ audioFile' = [audioFile EXCEPT ![t].open = FALSE]
    /\ closed' = [closed EXCEPT ![t] = @ + 1]
    /\ pc' = [pc EXCEPT ![t] = "clear"]
    /\ UNCHANGED <<filename, bytesRead, opened, failed, delivered>>
    /\ UNCHANGED <<gainVars, nodeVars, radioVars, codecVars, timeVars, debounceVars,
                   comboVars>>

\* isPlaying = false
Clear(n, t) ==
    /\ pc[t] = "clear"
    /\ isPlaying' = [isPlaying EXCEPT ![n] = FALSE]
    /\ pc' = [pc EXCEPT ![t] = "return"]
    /\ UNCHANGED <<filename, audioFile, bytesRead, opened, closed, failed, delivered>>
    /\ UNCHANGED <<gainVars, radioVars, codecVars, timeVars, debounceVars, comboVars,
                   buttonVars, sd, phase, boardId, soundFiles, soundFileCount,
                   greenSound, blueSound, yellowSound, recvCb>>

\* The last Serial output of the call, and its return to the caller.
Return(n, t) ==
    /\ pc[t] = "return"
    /\ pc' = [pc EXCEPT ![t] = "idle"]
    /\ UNCHANGED <<filename, audioFile, bytesRead, opened, closed, failed, delivered>>
    /\ UNCHANGED <<gainVars, nodeVars, radioVars, codecVars, timeVars, debounceVars,
                   comboVars>>

\* A pin of the board changes level while a playWAVFile call is streaming;
\* no pin is read before the call of loop() has returned.
Press(b) ==
    /\ \E t \in Tasks : Streaming(t)
    /\ pinLow' = [pinLow EXCEPT ![Dut][b] = ~@]
    /\ UNCHANGED <<now, wake, gainVars, nodeVars, radioVars, codecVars, debounceVars,
                   comboVars, playVars>>

\* The datagrams that reach the board while it plays.
PlayFrames ==
    {messageOf(2, 1, aWav, 0, 0), messageOf(1, 1, cWav, 0, 0),
     messageOf(2, 1, zWav, 0, 0)}

----------------------------------------------------------------------------
(* Debounce harness: the green ButtonState of one board, updated once per   *)
(* pass of loop(), on a pin whose level changes at any time.  Time moves   *)
(* in steps of TimeStep ms up to MaxTime; a pass of loop() starts at most  *)
(* MaxLate ms after its delay(10) has ended.                               *)

TimeStep == 5
MaxTime == 130
MaxLate == 5

DebounceIdle ==
    /\ dbLastRead = FALSE
    /\ dbReadSince = 0
    /\ dbReadFast = TRUE
    /\ dbClean = TRUE
    /\ dbEdges = 0
    /\ dbRawSince = 0
    /\ dbRawClean = FALSE
    /\ dbOnTime = TRUE
    /\ dbMissed = FALSE

\* The level of the green pin changes.
RawToggle ==
    /\ pinLow' = [pinLow EXCEPT ![Dut]["green"] = ~@]
    /\ dbRawSince' = now
    /\ dbRawClean' = IF pinLow[Dut]["green"] THEN dbRawClean
                     ELSE /\ ~greenButton[Dut].currentState
                          /\ ~greenButton[Dut].lastState
    /\ dbMissed' = \/ dbMissed
                   \/ /\ pinLow[Dut]["green"]
                      /\ dbRawClean
                      /\ now - dbRawSince >= DEBOUNCE_DELAY
                      /\ ~greenButton[Dut].currentState
    /\ UNCHANGED <<now, wake, dbLastRead, dbReadSince, dbReadFast, dbClean, dbEdges,
                   dbOnTime>>
    /\ UNCHANGED <<gainVars, nodeVars, radioVars, codecVars, comboVars, playVars>>

\* TimeStep ms pass.
Tick ==
    /\ now + TimeStep <= MaxTime
    /\ now + TimeStep <= wake[Dut] + MaxLate
    /\ now' = now + TimeStep
    /\ UNCHANGED <<pinLow, wake, debounceVars>>
    /\ UNCHANGED <<gainVars, nodeVars, radioVars, codecVars, comboVars, playVars>>

\* How long a pass is held up when one of its handlers plays a sound.
StallTime == DEBOUNCE_DELAY + 2 * TimeStep

\* The updateButton(&greenButton) call of one pass of loop(), followed by
\* the rest of the pass, which takes stall ms (a playWAVFile call of a
\* handler), and by the delay(10) of that pass.  The machine is taken
\* alone: what handleButtons does with the flags is outside this harness.
PollPass(stall) ==
    /\ now >= wake[Dut]
    /\ LET reading == pinLow[Dut]["green"]
           since == IF reading # dbLastRead THEN now ELSE dbReadSince
           after == updateButton(greenButton[Dut], reading, now)
           edge == after.currentState /\ ~greenButton[Dut].currentState
       IN  /\ greenButton' = [greenButton EXCEPT ![Dut] = after]
           /\ dbLastRead' = reading
           /\ dbReadSince' = since
           /\ dbReadFast' = (dbReadFast /\ now - since < DEBOUNCE_DELAY)
           /\ dbClean' = IF reading # dbLastRead
                         THEN ~greenButton[Dut].currentState ELSE dbClean
           /\ dbEdges' = (IF reading # dbLastRead THEN 0 ELSE dbEdges)
                             + (IF edge THEN 1 ELSE 0)
    /\ dbOnTime' = (dbOnTime /\ now = wake[Dut])
    /\ wake' = [wake EXCEPT ![Dut] = now + stall + LoopDelay]
    /\ UNCHANGED <<now, pinLow, dbRawSince, dbRawClean, dbMissed>>
    /\ UNCHANGED <<gainVars, radioVars, codecVars, comboVars, playVars, sd, phase, boardId, soundFiles,
                   soundFileCount, greenSound, blueSound, yellowSound, isPlaying,
                   recvCb, redButton, blueButton, yellowButton>>

\* A pass in which no handler plays.
PollGreen == PollPass(0)

\* A pass in which a handler plays a sound of StallTime ms.
PollStalled == PollPass(StallTime)

GainIdle ==
    /\ gsStage = "idle"
    /\ gsSample = 0
    /\ gsVolume = SOFTWARE_GAIN
    /\ gsScaled = 0
    /\ gsOut = 0
    /\ gsClampIn = 0
    /\ gsClampOut = 0
    /\ gsClampAgain = 0

GainInputs ==
    \/ /\ gsStage = "sample"
       /\ gsSample \in Samples
       /\ gsVolume \in Gains
       /\ gsScaled = 0
       /\ gsOut = 0
       /\ gsClampIn = 0
       /\ gsClampOut = 0
       /\ gsClampAgain = 0
    \/ /\ gsStage = "raw"
       /\ gsSample = 0
       /\ gsVolume = SOFTWARE_GAIN
       /\ gsScaled = 0
       /\ gsOut = 0
       /\ gsClampIn \in ClampInputs
       /\ gsClampOut = 0
       /\ gsClampAgain = 0

\* One call applyVolumeControl(gsSample, gsVolume).
ApplyVolume ==
    /\ gsStage = "sample"
    /\ gsStage' = "applied"
    /\ gsScaled' = scaledAtReturn(gsSample, gsVolume)
    /\ gsOut' = applyVolumeControl(gsSample, gsVolume)
    /\ UNCHANGED <<gsSample, gsVolume, gsClampIn, gsClampOut, gsClampAgain>>
    /\ UNCHANGED <<nodeVars, radioVars, codecVars, timeVars, debounceVars,
                   comboVars, playVars>>

\* The final hard clamp run on gsClampIn.
ClampOnce ==
    /\ gsStage = "raw"
    /\ gsStage' = "clamped"
    /\ gsClampOut' = hardClamp(gsClampIn)
    /\ UNCHANGED <<gsSample, gsVolume, gsScaled, gsOut, gsClampIn, gsClampAgain>>
    /\ UNCHANGED <<nodeVars, radioVars, codecVars, timeVars, debounceVars,
                   comboVars, playVars>>

\* The final hard clamp run on its own result.
ClampAgain ==
    /\ gsStage = "clamped"
    /\ gsStage' = "reclamped"
    /\ gsClampAgain' = hardClamp(gsClampOut)
    /\ UNCHANGED <<gsSample, gsVolume, gsScaled, gsOut, gsClampIn, gsClampOut>>
    /\ UNCHANGED <<nodeVars, radioVars, codecVars, timeVars, debounceVars,
                   comboVars, playVars>>



----------------------------------------------------------------------------
(* Specifications *)

\* No board is powered: the state of the node globals in a harness that
\* exercises a pure function only.
NodesOff ==
    /\ sd = [n \in Nodes |-> NoCard]
    /\ phase = [n \in Nodes |-> "halted"]
    /\ boardId = [n \in Nodes |-> 0]
    /\ soundFiles = [n \in Nodes |-> <<>>]
    /\ soundFileCount = [n \in Nodes |-> 0]
    /\ greenSound = [n \in Nodes |-> <<>>]
    /\ blueSound = [n \in Nodes |-> <<>>]
    /\ yellowSound = [n \in Nodes |-> <<>>]
    /\ isPlaying = [n \in Nodes |-> FALSE]
    /\ recvCb = [n \in Nodes |-> FALSE]
    /\ InitButtons

\* The boards and the radio channel.
Init == GainIdle /\ CodecIdle /\ InitNodes /\ InitRadio /\ InitTime /\ DebounceIdle /\ ComboIdle
        /\ PlayIdle

SetupStep ==
    \E n \in Nodes, card \in Cards, espNowOk \in BOOLEAN :
        /\ Setup(n, card, espNowOk)
        /\ UNCHANGED <<gainVars, radioVars, codecVars, timeVars, debounceVars,
                       comboVars, playVars>>
InjectStep == \E data \in ForeignDatagrams : Inject(data)
RemoteTriggerStep ==
    \E n \in Nodes, t \in BoardIds, idx \in 1..MaxSoundFiles, c \in SendConditions :
        RemoteTrigger(n, t, idx, c[1], c[2])
OnDataReceiveStep == \E n \in Nodes, after \in StackAfter : OnDataReceive(n, after)

Next ==
    SetupStep \/ InjectStep \/ RemoteTriggerStep \/ OnDataReceiveStep \/ FrameGone

Spec == Init /\ [][Next]_vars

\* The gain stage alone.
InitGain ==
    GainInputs /\ CodecIdle /\ NodesOff /\ InitRadio /\ InitTime /\ DebounceIdle /\ ComboIdle
        /\ PlayIdle
NextGain == ApplyVolume \/ ClampOnce \/ ClampAgain
SpecGain == InitGain /\ [][NextGain]_vars

\* The frame codec alone.
InitCodec ==
    GainIdle /\ CodecInputs /\ NodesOff /\ InitRadio /\ InitTime /\ DebounceIdle /\ ComboIdle
        /\ PlayIdle
CodecSendStep == \E c \in SendConditions : CodecSend(c[1], c[2])
CodecReceiveStep == \E after \in StackAfter : CodecReceive(after)
CodecTamperStep == \E c \in Bytes : CodecTamper(c)
CodecReceiveAgainStep == \E after \in StackAfter : CodecReceiveAgain(after)
NextCodec ==
    CodecSendStep \/ CodecReceiveStep \/ CodecTamperStep \/ CodecReceiveAgainStep
SpecCodec == InitCodec /\ [][NextCodec]_vars

\* One debounce machine alone.
InitDebounce ==
    GainIdle /\ CodecIdle /\ NodesOff /\ InitRadio /\ InitTime /\ DebounceIdle /\ ComboIdle
        /\ PlayIdle
NextDebounce == RawToggle \/ Tick \/ PollGreen
SpecDebounce == InitDebounce /\ [][NextDebounce]_vars

\* One debounce machine in a loop() whose passes may be held up.
NextStall == NextDebounce \/ PollStalled
SpecStall == InitDebounce /\ [][NextStall]_vars

\* The buttons of one board.
InitButtonHarness ==
    GainIdle /\ CodecIdle /\ InitNodes /\ InitRadio /\ InitTime /\ DebounceIdle /\ ComboIdle
        /\ PlayIdle
PinToggleStep == \E b \in ButtonNames : PinToggle(b)
HandleButtonsStep ==
    \E rnd \in DrawsUsed(Dut), dur \in DurationsUsed(Dut) : HandleButtons(Dut, rnd, dur)
NextButtons ==
    SetupDut \/ PinToggleStep \/ HandleButtonsStep \/ ButtonTick \/ FrameGone
SpecButtons == InitButtonHarness /\ [][NextButtons]_vars

\* The buttons of one board, with buttons held for seconds.
NextHold == NextButtons \/ Hold
SpecHold == InitButtonHarness /\ [][NextHold]_vars

\* The playWAVFile calls of one board.
InitPlay == InitButtonHarness
InjectPlay == \E data \in PlayFrames : Inject(data)
LoopPlayStep == \E path \in PlayRequests(Dut) : LoopPlay(Dut, path)
CallbackStep == \E after \in StackAfter : Callback(Dut, after)
OpenStep == \E t \in Tasks, ok \in BOOLEAN, size \in FileSizes : Open(Dut, t, ok, size)
ReadChunkStep ==
    \E t \in Tasks : \E got \in readResults(audioFile[t]) : ReadChunk(Dut, t, got)
\* Here every i2s_write that returns ESP_OK has taken the whole chunk.
WriteChunkStep ==
    \E t \in Tasks, ok \in BOOLEAN :
        WriteChunk(Dut, t, ok, IF ok THEN bytesRead[t] ELSE 0)
CloseStep == \E t \in Tasks : Close(Dut, t)
ClearStep == \E t \in Tasks : Clear(Dut, t)
ReturnStep == \E t \in Tasks : Return(Dut, t)
PressStep == Press("green")
NextPlay ==
    \/ SetupDut \/ InjectPlay \/ FrameGone \/ LoopPlayStep \/ CallbackStep
    \/ OpenStep \/ ReadChunkStep \/ WriteChunkStep \/ CloseStep \/ ClearStep
    \/ ReturnStep \/ PressStep
SpecPlay == InitPlay /\ [][NextPlay]_vars

\* The playWAVFile calls of loop() alone, on a device that may take a part
\* of a chunk only.
LoopReadStep == \E got \in readResults(audioFile["loop"]) : ReadChunk(Dut, "loop", got)
LoopWriteStep ==
    \E ok \in BOOLEAN, bytesWritten \in writeResults(bytesRead["loop"]) :
        WriteChunk(Dut, "loop", ok, bytesWritten)
NextStream ==
    \/ SetupDut \/ LoopPlayStep \/ LoopReadStep \/ LoopWriteStep
    \/ \E ok \in BOOLEAN, size \in FileSizes : Open(Dut, "loop", ok, size)
    \/ Close(Dut, "loop") \/ Clear(Dut, "loop") \/ Return(Dut, "loop")
SpecStream == InitPlay /\ [][NextStream]_vars

----------------------------------------------------------------------------
(* Claims about the receive path, checked under Spec *)

\* What a datagram says, read off its bytes by position, without the model
\* of the struct: byte 0 the sender, byte 1 the target, the file name from
\* byte 2 up to the first zero.
RECURSIVE SumBytes(_)
SumBytes(q) ==
    IF Len(q) = 0 THEN 0
    ELSE IF Len(q) = 1 THEN q[1]
    ELSE SumBytes(SubSeq(q, 1, Len(q) \div 2))
             + SumBytes(SubSeq(q, Len(q) \div 2 + 1, Len(q)))
UpToZero(q) ==
    SubSeq(q, 1, CHOOSE n \in 0..Len(q) :
                     /\ n = Len(q) \/ q[n + 1] = 0
                     /\ \A k \in 1..n : q[k] # 0)
FrameSender(data) == IF Len(data) >= 1 THEN data[1] ELSE -1
FrameTarget(data) == IF Len(data) >= 2 THEN data[2] ELSE -1
FrameName(data) == UpToZero(SubSeq(data, 3, 66))
\* The 8-bit wraparound sum of sender, target and name bytes.
FrameSum(data) ==
    (FrameSender(data) + FrameTarget(data) + SumBytes(FrameName(data))) % 256
CardHas(card, name) == \E i \in 1..Len(card.dir) : card.dir[i] = name

\* Board n has run its receive callback on the datagram on the channel.
Received(n) == rx[n].result # "none"
\* The boards whose callback started a playback for that datagram.
Players == {n \in Nodes : rx[n].plays # <<>>}

\* C1: a board that receives a datagram whose target byte is not its own
\* boardId starts no playback and runs neither validateMessage nor the
\* SD.exists check; so when the boards have distinct identities, one
\* datagram starts a playback on at most one board.
C1_TargetFilter ==
    /\ \A n \in Nodes :
        (Received(n) /\ FrameTarget(air.data) # boardId[n]) =>
            /\ rx[n].plays = <<>>
            /\ ~rx[n].validated
            /\ ~rx[n].existsChecked
    /\ (\A n, m \in Nodes : (n # m /\ phase[n] = "loop" /\ phase[m] = "loop")
                                => boardId[n] # boardId[m])
        => Cardinality(Players) <= 1

\* C1 witness: one broadcast reached two boards; the target played it, the
\* other dropped it on the target check.
C1_Witness ==
    \E n, m \in Nodes :
        /\ rx[n].result = "target"
        /\ rx[m].result = "played"
        /\ boardId[n] # boardId[m]

\* C2: a datagram of sizeof(ESPNowMessage) bytes whose target is the
\* board's own identity, whose sender is in 1..5, whose checksum byte is
\* the sum of sender, target and name, and whose name is a file of the
\* board's card, makes the callback call playWAVFile exactly once, with
\* "/" followed by exactly that name.
C2_ValidFramePlays ==
    \A n \in Nodes :
        ( /\ Received(n)
          /\ Len(air.data) = sizeofESPNowMessage
          /\ FrameTarget(air.data) = boardId[n]
          /\ FrameSender(air.data) \in 1..5
          /\ air.data[Len(air.data) - 3] = FrameSum(air.data)
          /\ CardHas(sd[n], FrameName(air.data)) )
        => rx[n].plays = <<Slash \o FrameName(air.data)>>

\* C2 witness: board identity 2 received {sender 1, target 2, a name on its
\* card} and played it.
C2_Witness ==
    \E n \in Nodes :
        /\ boardId[n] = 2
        /\ FrameSender(air.data) = 1
        /\ FrameTarget(air.data) = 2
        /\ rx[n].plays = <<Slash \o FrameName(air.data)>>
        /\ CardHas(sd[n], FrameName(air.data))

\* C3 (as claimed): every datagram whose length is not 71 is rejected on
\* its length, unread and unplayed, and the record a board transmits is 71
\* bytes long.
C3_Original ==
    /\ \A n \in Nodes :
        (Received(n) /\ Len(air.data) # 71) =>
            (rx[n].result = "size" /\ ~rx[n].copied /\ rx[n].plays = <<>>)
    /\ (air.from \in Nodes) => Len(air.data) = 71

\* C3 (amended): every datagram whose length is not 76 is rejected on its
\* length, unread (no memcpy, no validation) and unplayed; the record a
\* board transmits is 76 bytes: senderId(1) | targetId(1) | filename(64) |
\* padding(2) | timestamp(4) | checksum(1) | padding(3).
C3_SizeAndLayout ==
    /\ \A n \in Nodes :
        (Received(n) /\ Len(air.data) # 76) =>
            /\ rx[n].result = "size"
            /\ ~rx[n].copied
            /\ ~rx[n].validated
            /\ rx[n].plays = <<>>
    /\ \A n \in Nodes :
        (Received(n) /\ Len(air.data) = 76) => rx[n].result # "size"
    /\ (air.from \in Nodes) =>
        /\ Len(air.data) = 76
        /\ air.data[1] = boardId[air.from]
        /\ air.data[2] \in 1..5
        /\ \E i \in 1..soundFileCount[air.from] :
              SubSeq(air.data, 3, 66) =
                  soundFiles[air.from][i]
                      \o [k \in 1..(64 - Len(soundFiles[air.from][i])) |-> 0]
        /\ \E t \in Clock : SubSeq(air.data, 69, 72) = le32(t)
        /\ air.data[73] = FrameSum(air.data)

\* C3 witness: a 71-byte packed record addressed to a board was rejected by
\* that board on its length.
C3_Witness ==
    \E n \in Nodes :
        /\ Len(air.data) = 71
        /\ FrameTarget(air.data) = boardId[n]
        /\ rx[n].result = "size"

\* The part of a board's state outside the receive trace.
BoardState(n) ==
    <<sd[n], phase[n], boardId[n], soundFiles[n], soundFileCount[n],
      greenSound[n], blueSound[n], yellowSound[n], isPlaying[n], recvCb[n],
      redButton[n], greenButton[n], blueButton[n], yellowButton[n]>>

\* C6: when a board's callback runs on a full-size datagram addressed to it
\* whose sender or target is outside 1..5, or whose checksum byte is not
\* the sum, or whose name is no file of its card, the call returns a
\* rejection: nothing is played, the board's state is as before and the
\* board is still in its poll loop.
C6_RejectIsValue ==
    [][\A n \in Nodes :
        ( /\ n \in air.pending
          /\ air' = [air EXCEPT !.pending = @ \ {n}]
          /\ Len(air.data) = sizeofESPNowMessage
          /\ FrameTarget(air.data) = boardId[n]
          /\ \/ FrameSender(air.data) \notin 1..5
             \/ FrameTarget(air.data) \notin 1..5
             \/ air.data[Len(air.data) - 3] # FrameSum(air.data)
             \/ ~CardHas(sd[n], FrameName(air.data)) )
        => /\ rx'[n].result \in {"sender", "target", "checksum", "file"}
           /\ rx'[n].plays = <<>>
           /\ BoardState(n)' = BoardState(n)
           /\ phase'[n] = "loop"]_vars

\* C6 witness: a board has rejected a frame addressed to it for its
\* checksum, and is in its poll loop.
C6_Witness ==
    \E n \in Nodes :
        /\ rx[n].result = "checksum"
        /\ FrameTarget(air.data) = boardId[n]
        /\ phase[n] = "loop"

\* Further reachable rejections: an out-of-range sender, a missing file.
C6_WitnessSender == \E n \in Nodes : rx[n].result = "sender"
C6_WitnessFile == \E n \in Nodes : rx[n].result = "file"

----------------------------------------------------------------------------
(* Claims about the frame codec, checked under SpecCodec *)

\* C4 (as claimed): for every sender and target in 1..5 and every name
\* shorter than 63 bytes, the frame sendSoundCommand builds passes
\* validateMessage on the receiver and carries the three fields unchanged.
C4_Original ==
    (cxStage = "received" /\ Len(cxName) < 63) =>
        /\ cxRx.validated
        /\ cxRx.result = "played"
        /\ FrameSender(cxFrame) = cxOwnId
        /\ FrameTarget(cxFrame) = cxTarget
        /\ FrameName(cxFrame) = cxName

\* C4 (amended): for every sender and target in 1..5 and every name shorter
\* than 63 bytes that is a file of the receiver's card, the frame
\* sendSoundCommand builds passes validateMessage on the receiver and
\* carries the three fields unchanged; for a name the card lacks the
\* fields are carried unchanged and validation fails on the file check.
C4_RoundTrip ==
    (cxStage = "received" /\ Len(cxName) < 63) =>
        /\ cxRx.validated
        /\ FrameSender(cxFrame) = cxOwnId
        /\ FrameTarget(cxFrame) = cxTarget
        /\ FrameName(cxFrame) = cxName
        /\ CardHas(cxCard, cxName) =>
              (cxRx.result = "played" /\ cxRx.plays = <<Slash \o cxName>>)
        /\ ~CardHas(cxCard, cxName) => cxRx.result = "file"

\* C4 witness: a frame with a 62-byte name from sender 5 to target 5 has
\* been accepted by the receiver.
C4_Witness ==
    /\ cxStage = "received"
    /\ Len(cxName) = 62
    /\ cxOwnId = 5
    /\ cxTarget = 5
    /\ cxRx.result = "played"

\* C5: the checksum byte sendSoundCommand stores is the 8-bit wraparound
\* sum of sender, target and the name bytes; and an accepted frame whose
\* checksum byte alone is changed to any other value fails validation on
\* the checksum, with no playback.
C5_ChecksumDetects ==
    /\ (cxStage \in {"sent", "received"} /\ Len(cxName) < 64) =>
          cxFrame[73] = (cxOwnId + cxTarget + SumBytes(cxName)) % 256
    /\ cxStage = "rereceived" =>
          /\ cxRx.validated
          /\ cxRx.result = "checksum"
          /\ cxRx.plays = <<>>

\* C5 witness: an accepted frame whose name sums past 255 has had its
\* checksum byte changed and has been received again.
C5_Witness ==
    /\ cxStage = "rereceived"
    /\ SumBytes(cxName) > 255
    /\ cxFrame[73] # (cxOwnId + cxTarget + SumBytes(cxName)) % 256

----------------------------------------------------------------------------
(* Claims about the gain stage, checked under SpecGain *)

Abs(x) == IF x < 0 THEN -x ELSE x
Sign(x) == IF x < 0 THEN -1 ELSE IF x > 0 THEN 1 ELSE 0
Min(a, b) == IF a < b THEN a ELSE b
Max(a, b) == IF a > b THEN a ELSE b

\* The soft-knee limiter as the design states it, on the scaled value:
\* unchanged up to the knee, the excess over the knee divided by four
\* (rounded toward zero) beyond it, the sign kept, then the clamp.
RefLimiter(scaled) ==
    LET knee == IF Abs(scaled) <= 28000
                THEN scaled
                ELSE Sign(scaled) * (28000 + ((Abs(scaled) - 28000) \div 4))
    IN  Max(MinInt16, Min(MaxInt16, knee))

\* C7: for every sample and every volume of the model (0 to 1.2 and the
\* next grid point), the value applyVolumeControl returns is the value of
\* scaled at the return, that value is in [-32768, 32767] (the cast does
\* not wrap), and every int32_t intermediate fits in 32 bits.
C7_OutputInRange ==
    gsStage = "applied" =>
        /\ gsScaled \in Int16
        /\ gsOut \in Int16
        /\ gsOut = gsScaled
        /\ \A x \in Intermediates(gsSample, gsVolume) : InInt32(x)

\* C7 witness: the largest sample at a volume of at least 1.2 has been
\* processed and came out above the knee.
C7_Witness ==
    /\ gsStage = "applied"
    /\ gsSample = MaxInt16
    /\ 10 * gsVolume >= 12 * GainDen
    /\ gsOut > 28000

\* C8: the returned value is the reference soft-knee limiter of
\* trunc(sample * volume), and the limiter is odd: the negative branch
\* mirrors the positive one.
C8_EqualsReference ==
    gsStage = "applied" =>
        LET scaled == scaleSample(gsSample, gsVolume)
        IN  /\ gsOut = RefLimiter(scaled)
            /\ softLimit(-scaled) = -softLimit(scaled)

\* C8 witness: a negative sample beyond the knee whose excess is not a
\* multiple of four has been processed.
C8_Witness ==
    /\ gsStage = "applied"
    /\ scaleSample(gsSample, gsVolume) < -28000
    /\ (scaleSample(gsSample, gsVolume) + 28000) % 4 # 0

\* C9: clamping an already clamped value returns it unchanged, for the
\* clamp run alone on any int32_t and for the clamp inside
\* applyVolumeControl.
C9_ClampIdempotent ==
    /\ gsStage = "reclamped" => gsClampAgain = gsClampOut
    /\ gsStage = "applied" => hardClamp(gsScaled) = gsScaled

\* C9 witness: a value above the int16_t range has been clamped twice.
C9_Witness ==
    /\ gsStage = "reclamped"
    /\ gsClampIn > 65536
    /\ gsClampOut = MaxInt16

----------------------------------------------------------------------------
(* Claims about the debounce machine, checked under SpecDebounce *)

LastPoll == wake[Dut] - LoopDelay

\* C11 (as claimed): polled every 10 ms, a press that begins with the
\* machine at rest in the released state and holds for 50 ms or more (50 ms
\* included) never ends without a latched edge.
C11_Original == dbOnTime => ~dbMissed

\* C11 (amended): when the machine, with currentState false, starts to read
\* the pin pressed and goes on reading it pressed, it latches no edge
\* while those reads span 50 ms or less, and exactly one edge (never two)
\* once they span more than 50 ms: with a poll every 10 ms, at the seventh
\* successive pressed read.
C11_OneEdgePastWindow ==
    (wake[Dut] > 0 /\ dbLastRead /\ dbClean) =>
        /\ (LastPoll - dbReadSince > DEBOUNCE_DELAY) =>
              (dbEdges = 1 /\ greenButton[Dut].pressed /\ greenButton[Dut].currentState)
        /\ (LastPoll - dbReadSince <= DEBOUNCE_DELAY) =>
              (dbEdges = 0 /\ ~greenButton[Dut].currentState)

\* C11 witness: a clean press read over more than one further poll after
\* its edge was latched, still with exactly one edge.
C11_Witness ==
    /\ wake[Dut] > 0 /\ dbLastRead /\ dbClean /\ dbOnTime
    /\ LastPoll - dbReadSince >= DEBOUNCE_DELAY + 3 * LoopDelay
    /\ dbEdges = 1
    /\ greenButton[Dut].pressed

----------------------------------------------------------------------------
(* The button combinator *)

\* The state right after a pass of loop() on the driven board: ev is what
\* the pass emitted and the ButtonState globals are as the pass left them
\* (the handlers write the pressed flags only, so currentState is what the
\* dispatch in handleButtons saw).
AfterPass == ev # Idle
Stable(b) == Buttons(Dut)[b].currentState
Latched(b) == Buttons(Dut)[b].pressed
StableColours == {c \in Colours : Stable(c)}
CatalogPaths == {Slash \o soundFiles[Dut][i] : i \in 1..soundFileCount[Dut]}

\* C12: on a pass at which green and blue are stable-pressed and yellow is
\* not, handleButtons plays one random catalog entry (PlayRandomLocal) and
\* neither the green nor the blue sound as a single press, whatever the
\* edge flags and whatever the red button.
C12_DualBeatsSingle ==
    (AfterPass /\ Stable("green") /\ Stable("blue") /\ ~Stable("yellow")) =>
        /\ ev.kind = "PlayRandomLocal"
        /\ ev.kind # "PlayStatic"
        /\ Len(ev.plays) = 1
        /\ ev.plays[1] \in CatalogPaths
        /\ ev.sent = <<>>

\* Green and blue held, yellow not, with the red button held and its edge
\* still latched: the random sound was played.
C12_Witness ==
    /\ AfterPass /\ Stable("green") /\ Stable("blue") /\ ~Stable("yellow")
    /\ Stable("red") /\ Latched("red")
    /\ ev.kind = "PlayRandomLocal"

\* C13: on every pass at which at least two of green, blue and yellow are
\* stable-pressed, all three included, the pass plays a random catalog
\* entry (PlayRandomLocal) and leaves no colour edge flag latched.
C13_Original ==
    (AfterPass /\ Cardinality(StableColours) >= 2) =>
        /\ ev.kind = "PlayRandomLocal"
        /\ \A c \in Colours : ~Latched(c)

\* C14: from a pass at which green, blue and yellow are all stable-pressed
\* until all three have been released and one is pressed again, no pass
\* plays a colour's own sound (PlayStatic), however the fingers lift.
C14_Original ==
    (AfterPass /\ chord \in {"held", "released"}) => ev.kind # "PlayStatic"

\* C15: two colour buttons that become stable-pressed within 100 ms
\* (DUAL_PRESS_WINDOW) of each other are taken as a dual press: while both
\* are held, the own sound of neither has been played for this press (no
\* PlayStatic for the one that came first).
C15_Original ==
    \A c, d \in Colours :
        (/\ c # d
         /\ Stable(c) /\ Stable(d)
         /\ stableAt[d] >= stableAt[c]
         /\ stableAt[d] - stableAt[c] <= DUAL_PRESS_WINDOW) =>
            (~staticFor[c] /\ ~staticFor[d])

\* A step that is a pass of loop() on the driven board, and the buttons as
\* updateAllButtons leaves them at the start of that pass.
PassStep == wake'[Dut] # wake[Dut]
Updated == updateAllButtons(Buttons(Dut), pinLow[Dut], now)

\* C16: on a pass with fewer than two colour buttons stable-pressed and red
\* stable-pressed, a remote command is sent exactly if red's edge flag is
\* set, the flag is consumed, and no colour sound is played even when
\* colour edges are latched (they stay latched); a remote command is never
\* sent on a pass at which red is not stable-pressed or two or more colour
\* buttons are.
C16_RedTrigger ==
    [][PassStep =>
        /\ (countPressedButtons(Updated) < 2 /\ Updated.red.currentState) =>
              /\ (ev'.kind = "SendRemoteCommand") <=> Updated.red.pressed
              /\ Updated.red.pressed => Len(ev'.sent) = 1
              /\ ~redButton'[Dut].pressed
              /\ ev'.kind # "PlayStatic"
              /\ ev'.plays = <<>>
              /\ \A c \in Colours : Buttons(Dut)'[c].pressed = Updated[c].pressed
        /\ (ev'.kind = "SendRemoteCommand") =>
              (Updated.red.currentState /\ countPressedButtons(Updated) < 2)
        /\ (~Updated.red.currentState \/ countPressedButtons(Updated) >= 2) =>
              ev'.sent = <<>>]_vars

\* Red and green were pressed together: the pass sent the command, red's
\* edge is consumed and green's edge is still latched, unplayed.
C16_Witness ==
    /\ AfterPass
    /\ ev.kind = "SendRemoteCommand"
    /\ Stable("red") /\ ~Latched("red")
    /\ Stable("green") /\ Latched("green")
    /\ Cardinality(StableColours) = 1

\* The configured sound of a colour: entry 1, 2, 3 of the sorted catalog.
ColourSlot == [green |-> 1, blue |-> 2, yellow |-> 3]
Sorted(files) ==
    \A i \in 1..Len(files) - 1 : compareTo(files[i], files[i + 1]) <= 0

\* C17: after a successful startup a single press of green (blue, yellow)
\* hands playWAVFile exactly one path, "/" + the 1st (2nd, 3rd) entry of
\* the alphabetically sorted catalog, and sends nothing; on the card with
\* c.wav, a.wav, b.wav a green press plays "/a.wav" and nothing else.
C17_StaticPlaysSlot ==
    (AfterPass /\ ev.kind = "PlayStatic") =>
        /\ phase[Dut] = "loop"
        /\ Sorted(soundFiles[Dut])
        /\ \A i \in 1..soundFileCount[Dut] : CardHas(sd[Dut], soundFiles[Dut][i])
        /\ ev.colour \in Colours
        /\ ev.plays = <<Slash \o soundFiles[Dut][ColourSlot[ev.colour]]>>
        /\ ev.sent = <<>>
        /\ (sd[Dut] = CardOf(1, <<cWav, aWav, bWav>>) /\ ev.colour = "green") =>
              ev.plays = <<Slash \o aWav>>

\* Green alone was pressed on the board with c.wav, a.wav, b.wav.
C17_Witness ==
    /\ AfterPass
    /\ sd[Dut] = CardOf(1, <<cWav, aWav, bWav>>)
    /\ ev.kind = "PlayStatic" /\ ev.colour = "green"
    /\ ev.plays = <<Slash \o aWav>>
    /\ StableColours = {"green"}
    /\ toggles = 1

----------------------------------------------------------------------------
(* Startup *)

\* What makes setup() fatal: SD.begin fails, no marker file 1.txt .. 5.txt,
\* or fewer than three .wav files.
FatalCard(card) ==
    \/ ~card.ok
    \/ loadBoardId(card) = 0
    \/ Len(discoverSoundFiles(card)) < 3

\* C18: a board whose storage fails to initialise, or holds no identity
\* marker, or fewer than three sound files, halts in setup() for good: it
\* never runs loop(), never plays, never registers the receive callback
\* (so never runs it) and never puts a frame on the channel.
C18_FatalStartupHalts ==
    \A n \in Nodes :
        (phase[n] # "boot" /\ FatalCard(sd[n])) =>
            /\ phase[n] = "halted"
            /\ ~recvCb[n]
            /\ rx[n] = NoRx
            /\ air.from # n
            /\ ~isPlaying[n]
            /\ wake[n] = 0
            /\ Buttons(n) = [b \in ButtonNames |-> InitButtonState]

\* A board with two sound files has halted while a frame addressed to its
\* identity is on the channel and another board has received it.
C18_Witness ==
    \E n, m \in Nodes :
        /\ n # m
        /\ phase[n] = "halted"
        /\ sd[n] = CardOf(2, <<bWav, aWav>>)
        /\ air # NoFrame
        /\ FrameTarget(air.data) = boardId[n]
        /\ n \in air.pending
        /\ Received(m)

----------------------------------------------------------------------------
(* Remote commands *)

Catalog(n) == {soundFiles[n][i] : i \in 1..soundFileCount[n]}

\* C19: every frame a red-button event hands to esp_now_send carries the
\* board's own identity as sender, a target in 1..5 other than its own
\* identity, a file name that is an entry of its catalog, and a checksum
\* equal to calculateChecksum of the frame.
C19_Original ==
    \A i \in 1..Len(ev.sent) :
        LET data == ev.sent[i].data
        IN  /\ Len(data) = sizeofESPNowMessage
            /\ senderBoardId(data) = boardId[Dut]
            /\ targetBoardId(data) \in BoardIds \ {boardId[Dut]}
            /\ soundFileString(data) \in Catalog(Dut)
            /\ checksumOf(data) = calculateChecksum(data)

\* C20: a remote command is one esp_now_send call, whatever it returns: no
\* second call, no waiting, no playback on the sender, no change of the
\* board's state beyond the consumed red edge, and loop() goes on with its
\* delay(10) and the next pass.
C20_FireAndForget ==
    [][(PassStep /\ ev'.kind = "SendRemoteCommand") =>
        /\ Len(ev'.sent) = 1
        /\ ev'.plays = <<>>
        /\ isPlaying' = isPlaying
        /\ now' = now
        /\ wake'[Dut] = now + LoopDelay
        /\ phase'[Dut] = "loop"
        /\ BoardOf(Dut)' = BoardOf(Dut)
        /\ <<sd, recvCb, rx>>' = <<sd, recvCb, rx>>
        /\ Buttons(Dut)' = [Updated EXCEPT !.red.pressed = FALSE]
        /\ air' = IF ev'.sent[1].ok
                  THEN [data |-> ev'.sent[1].data, from |-> Dut,
                        pending |-> Nodes \ {Dut}]
                  ELSE air]_vars

\* esp_now_send returned an error: the one call, nothing on the channel,
\* and the board waits for its next pass.
C20_Witness ==
    /\ AfterPass
    /\ ev.kind = "SendRemoteCommand"
    /\ Len(ev.sent) = 1
    /\ ~ev.sent[1].ok
    /\ air = NoFrame
    /\ recvCb[Dut]
    /\ wake[Dut] = now + LoopDelay

----------------------------------------------------------------------------
(* Claims about playback, checked under SpecPlay *)

\* C21: at most one playback session is active on a board at any time and
\* play requests never queue: a request that arrives while a playback is
\* streaming (a valid frame handed to the receive callback while a sound
\* that the buttons started is streaming) does not stream together with
\* it and is not kept for later.  The code starts the second playback at
\* once, inside the callback, while the first is still streaming.
C21_Original ==
    \A t, u \in Tasks : (Streaming(t) /\ Streaming(u)) => t = u

\* The step in which the receive callback of the board is invoked on the
\* datagram on the channel.
CallbackInvoked ==
    /\ pc["radio"] = "idle"
    /\ Dut \in air.pending
    /\ air'.data = air.data
    /\ Dut \notin air'.pending

\* C22: the receive callback does not block: handling an inbound frame
\* returns without running the streaming loop of a playback inside the
\* callback, and it reads and writes no ButtonState of the poll loop.  The
\* code calls playWAVFile from the callback, which stays in it until the
\* file has been streamed.
C22_Original ==
    [][CallbackInvoked => (pc'["radio"] = "idle" /\ UNCHANGED buttonVars)]_vars

----------------------------------------------------------------------------
(* Claims about frames a board seems to have sent itself, under Spec *)

\* C23: the receive path compares the target of a frame with the board's
\* identity and never the sender: a frame of the right length whose sender
\* and target both are the receiving board's own identity, with a correct
\* checksum and the name of a file of its card, is accepted and played by
\* that board; a frame is refused on its sender only when the sender is
\* outside 1..5.
C23_OwnFramePlays ==
    \A n \in Nodes :
        /\ ( /\ Received(n)
             /\ Len(air.data) = sizeofESPNowMessage
             /\ FrameTarget(air.data) = boardId[n]
             /\ FrameSender(air.data) = boardId[n]
             /\ air.data[Len(air.data) - 3] = FrameSum(air.data)
             /\ CardHas(sd[n], FrameName(air.data)) )
           => /\ rx[n].result = "played"
              /\ rx[n].plays = <<Slash \o FrameName(air.data)>>
        /\ rx[n].result = "sender" => FrameSender(air.data) \notin 1..5

\* C23 witness: a board has played a frame that names it as sender and as
\* target.
C23_Witness ==
    \E n \in Nodes :
        /\ rx[n].result = "played"
        /\ phase[n] = "loop"
        /\ FrameSender(air.data) = boardId[n]
        /\ FrameTarget(air.data) = boardId[n]

----------------------------------------------------------------------------
(* Claims about the debounce machine in a loop() that playback holds up,   *)
(* checked under SpecStall                                                 *)

\* The step changes the debounced level of the green button or latches
\* its pressed edge.
GreenChanges ==
    \/ greenButton'[Dut].currentState # greenButton[Dut].currentState
    \/ greenButton'[Dut].pressed /\ ~greenButton[Dut].pressed

\* C25 (as claimed): the debounced level of a button changes, and a pressed
\* edge is latched, only if the pin has been at the new level without a
\* break for the whole debounce interval.
C25_Original ==
    [][GreenChanges
          => /\ pinLow[Dut]["green"] = greenButton'[Dut].currentState
             /\ now - dbRawSince >= DEBOUNCE_DELAY]_vars

\* C25 (amended): the debounced level changes, and a pressed edge is
\* latched, only at a sample that reads the new level, after a sample that
\* read it too, more than 50 ms after the first sample of that unbroken run
\* of equal samples; what the pin does between two samples is not seen.  A
\* glitch shorter than 50 ms on a button at rest (released, and last
\* sampled released) ends without a change of the debounced level, also
\* when a playback keeps the loop from sampling for longer than 50 ms.
C25_SampledDebounce ==
    [][/\ GreenChanges
            => /\ pinLow[Dut]["green"] = greenButton'[Dut].currentState
               /\ dbLastRead = greenButton'[Dut].currentState
               /\ now - dbReadSince > DEBOUNCE_DELAY
       /\ ( /\ pinLow[Dut]["green"] /\ ~pinLow'[Dut]["green"]
            /\ dbRawClean
            /\ now - dbRawSince < DEBOUNCE_DELAY )
            => ~greenButton[Dut].currentState]_vars

\* C25 witness: the pin went low on a button at rest, a pass sampled it low
\* and then began a playback, and 45 ms later the pin is still low, about
\* to be released, with the loop still held up and no edge latched.
C25_Witness ==
    /\ pinLow[Dut]["green"]
    /\ dbRawClean
    /\ now - dbRawSince = DEBOUNCE_DELAY - TimeStep
    /\ greenButton[Dut].lastState
    /\ ~greenButton[Dut].currentState
    /\ wake[Dut] - now > LoopDelay

----------------------------------------------------------------------------
(* Claims about what one pass of loop() emits, checked under SpecButtons *)

\* C26: one handleButtons call triggers at most one of: one static sound,
\* one random local sound, one remote command; so at most one playWAVFile
\* call or one esp_now_send call, also when several edge flags are latched.
C26_OneEventPerPass ==
    /\ Len(ev.plays) + Len(ev.sent) <= 1
    /\ ev.kind = "PlayStatic" => (Len(ev.plays) = 1 /\ ev.sent = <<>>)
    /\ ev.kind = "PlayRandomLocal" => ev.sent = <<>>
    /\ ev.kind = "SendRemoteCommand" => ev.plays = <<>>
    /\ ev.kind \in {"idle", "none"} => (ev.plays = <<>> /\ ev.sent = <<>>)

\* C26 witness: a pass played the green sound alone while the edges of
\* blue and yellow were latched too.
C26_Witness ==
    /\ AfterPass
    /\ ev.kind = "PlayStatic"
    /\ ev.colour = "green"
    /\ Len(ev.plays) = 1
    /\ Latched("blue")
    /\ Latched("yellow")

\* The pass that the step is emits the event that isButtonPressed(b)
\* returning true leads to: the remote command for red, the static sound of
\* the colour for a colour button.
Consumed(b) ==
    IF b = "red" THEN ev'.kind = "SendRemoteCommand"
    ELSE ev'.kind = "PlayStatic" /\ ev'.colour = b

\* What holds of the edge flag of button b at a pass whoever may clear it:
\* updateButton sets it, and only on a debounced transition into pressed;
\* the handlers never set it; isButtonPressed returns true only when it is
\* set, and leaves it cleared.
FlagSetAndRead(b) ==
    /\ (Updated[b].pressed /\ ~Buttons(Dut)[b].pressed)
          => (Updated[b].currentState /\ ~Buttons(Dut)[b].currentState)
    /\ Buttons(Dut)[b].pressed => Updated[b].pressed
    /\ Buttons(Dut)'[b].pressed => Updated[b].pressed
    /\ Consumed(b) => (Updated[b].pressed /\ ~Buttons(Dut)'[b].pressed)

\* C27 (as claimed): the pressed flag is set only by a debounced transition
\* into pressed; a transition into released, or a pass that does not read
\* the flag, never clears it; isButtonPressed returns true at most once per
\* latched edge: the flag goes from set to cleared only in the pass in
\* which isButtonPressed returns true for it.
C27_Original ==
    [][PassStep =>
        \A b \in ButtonNames :
            /\ FlagSetAndRead(b)
            /\ (Updated[b].pressed /\ ~Buttons(Dut)'[b].pressed) => Consumed(b)]_vars

\* C27 (amended): as claimed, but for one more writer: the flag of a colour
\* button is also cleared, unread, by handleDualButtonPress, which on a
\* two-button chord resets the flags of all three colour buttons, the one
\* that is not part of the chord included.  No other pass clears a flag.
C27_ConsumeOnce ==
    [][PassStep =>
        /\ \A b \in ButtonNames :
            /\ FlagSetAndRead(b)
            /\ (Updated[b].pressed /\ ~Buttons(Dut)'[b].pressed)
                  => (Consumed(b) \/ (b \in Colours /\ ev'.kind = "PlayRandomLocal"))
        /\ ev'.kind = "PlayRandomLocal"
              => \A c \in Colours : ~Buttons(Dut)'[c].pressed]_vars

\* C27 witness: a pass is about to start with two colour buttons
\* stable-pressed and the edge of the third, which is released, still
\* latched and unread.
C27_Witness ==
    /\ phase[Dut] = "loop"
    /\ now = wake[Dut]
    /\ countPressedButtons(Updated) = 2
    /\ \E c \in Colours : ~Updated[c].currentState /\ Updated[c].pressed

----------------------------------------------------------------------------
(* Claims about the paths through playWAVFile, checked under SpecPlay *)

\* C28: a playWAVFile call that opened its file has closed it exactly once
\* when it returns, a call whose open failed has opened and closed nothing,
\* and isPlaying is false when the call returns, whether it ended at the
\* end of the data, after an i2s_write error or on the open failure.  The
\* file is released on every path; but isPlaying is shared with a call of
\* the other task (see C21), which may have set it again by then.
C28_Original ==
    \A t \in Tasks :
        pc[t] = "return" =>
            /\ opened[t] <= 1
            /\ closed[t] = opened[t]
            /\ ~audioFile[t].open
            /\ ~isPlaying[Dut]

ReadsNothing(t) ==
    /\ pc[t] = "loop"
    /\ available(audioFile[t]) > 0
    /\ bytesRead[t] # 0
    /\ bytesRead'[t] = 0

\* C30: every playWAVFile call returns in the end, whatever the card, the
\* device and the radio do: a read that returns no bytes counts as the end
\* of the data and ends the streaming loop.  In the code the loop is left
\* only when available() is 0 or i2s_write fails: after a read of no bytes
\* it tests available() again, which has not changed, and reads again.
C30_Original ==
    [][\A t \in Tasks : ReadsNothing(t) => pc'[t] = "close"]_vars

----------------------------------------------------------------------------
(* Claims about the files a frame can make a board play, under Spec *)

\* C35: every name that playWAVFile is called with is "/" and an entry of
\* the board's catalog, so it ends in .wav or .WAV and the 44 bytes of the
\* header are skipped; a frame that names another file of the card, such
\* as the identity marker, is not played.  The code asks SD.exists only:
\* a frame that names the marker file of the board it is addressed to is
\* accepted, and the file is streamed from its first byte.
C35_Original ==
    \A n \in Nodes : \A i \in 1..Len(rx[n].plays) :
        /\ \E k \in 1..soundFileCount[n] : rx[n].plays[i] = Slash \o soundFiles[n][k]
        /\ \/ endsWith(rx[n].plays[i], SuffixLower)
           \/ endsWith(rx[n].plays[i], SuffixUpper)
        /\ openedFile(rx[n].plays[i], WavHeader + BUFFER_SIZE).pos = WavHeader

\* The soundFile field of the datagram on the channel holds no zero byte.
FieldUnterminated ==
    /\ Len(air.data) = sizeofESPNowMessage
    /\ \A i \in 0..(sizeofSoundFile - 1) : soundFileAt(air.data, i) # 0

\* C38: for a full-size frame addressed to the board, the name that
\* validation and playback use is bounded by the 64 bytes of soundFile:
\* the receiver reads no byte past the field as part of the name, not
\* the padding, the timestamp or the checksum, when the field holds no
\* terminator, and such a frame is rejected.  calculateChecksum stops at
\* the end of the field, but String(msg->soundFile) reads up to the first
\* zero byte wherever it is: the name looked up on the card runs on
\* through the rest of the struct and the stack behind it.
C38_Original ==
    \A n \in Nodes :
        rx[n].validated =>
            /\ \A after \in StackAfter :
                   Len(soundFileString(MemoryAt(air.data, after))) <= sizeofSoundFile
            /\ FieldUnterminated => rx[n].result # "played"

----------------------------------------------------------------------------
(* Claims about what a board keeps for its lifetime *)

\* What setup() of board n loaded: its identity, its catalog and the
\* sounds of its three colour buttons.
Loaded(n) ==
    <<boardId[n], soundFiles[n], soundFileCount[n], greenSound[n], blueSound[n],
      yellowSound[n]>>

\* C32: once setup() of a board has gone on to loop(), no step changes the
\* board's identity, its catalog (soundFiles, soundFileCount) or the three
\* sounds of its colour buttons, whether the step is a transmission of its
\* own, a datagram put on the channel, its receive callback on a frame it
\* plays or on one it refuses, a pass of loop(), a pin change or a step of
\* a playback; the board stays in loop(), and its identity is in 1..5.
C32_LoadedOnce ==
    [][\A n \in Nodes :
          /\ phase'[n] = "loop" => boardId'[n] \in BoardIds
          /\ phase[n] = "loop" => /\ Loaded(n)' = Loaded(n)
                                  /\ phase'[n] = "loop"]_vars

\* C32 witness: a board in loop() has put a frame on the channel and
\* another has played it, and each still is the board of its card, with
\* the catalog and the colour sounds of its card.
C32_Witness ==
    \E n, m \in Nodes :
        /\ air.from = m
        /\ rx[n].result = "played"
        /\ \A k \in {n, m} :
               /\ phase[k] = "loop"
               /\ boardId[k] = loadBoardId(sd[k])
               /\ soundFiles[k] = discoverSoundFiles(sd[k])
               /\ soundFileCount[k] >= 3
               /\ <<greenSound[k], blueSound[k], yellowSound[k]>>
                      = <<soundFiles[k][1], soundFiles[k][2], soundFiles[k][3]>>

----------------------------------------------------------------------------
(* Claims about two colour buttons held over several passes, under         *)
(* SpecButtons                                                             *)

\* C34: while the same two colour buttons stay stable-pressed from pass to
\* pass, with no release in between, the random sound is played once for
\* that dual press: a pass plays it (PlayRandomLocal) only if the set of
\* stable-pressed colour buttons is not the one the pass before left.  The
\* code tests the levels alone, countPressedButtons() == 2, so every pass
\* that finds the two buttons still down plays another random sound; the
\* edge flags it clears are not what triggers the branch.
C34_Original ==
    [][(ev = Idle /\ ev'.kind = "PlayRandomLocal") =>
           StableColours' # StableColours]_vars

\* The first colour, in the order green, blue, yellow, whose edge flag is
\* latched in the button states bs.
FirstLatched(bs) ==
    IF bs.green.pressed THEN "green" ELSE IF bs.blue.pressed THEN "blue" ELSE "yellow"

\* A pass with red not stable-pressed and fewer than two colour buttons
\* stable-pressed that finds a colour edge latched plays the sound of the
\* first latched colour, whether that button is still down or not, and
\* clears that flag alone.
FiresFirstLatched ==
    (/\ ~Updated.red.currentState
     /\ countPressedButtons(Updated) < 2
     /\ \E c \in Colours : Updated[c].pressed) =>
        /\ ev'.kind = "PlayStatic"
        /\ ev'.colour = FirstLatched(Updated)
        /\ ev'.plays = <<Slash \o BoardOf(Dut).sounds[ev'.colour]>>
        /\ \A c \in Colours :
               Buttons(Dut)'[c].pressed = (Updated[c].pressed /\ c # ev'.colour)

\* C37 (as claimed): a colour edge flag that is latched while red is
\* stable-pressed is never lost: every pass keeps it until a pass plays
\* that colour's sound, and the first pass with red not stable-pressed and
\* fewer than two colour buttons stable-pressed plays the first latched
\* colour, in the order green, blue, yellow.
C37_Original ==
    [][PassStep =>
        /\ \A c \in Colours :
               (Stable("red") /\ Latched(c)) =>
                   (Buttons(Dut)'[c].pressed \/ Consumed(c))
        /\ FiresFirstLatched]_vars

\* C37 (amended): the flag is kept, also when its button is released, by
\* every pass at which red is stable-pressed with fewer than two colour
\* buttons stable-pressed and by every pass at which all three colour
\* buttons are; no such pass plays a colour sound.  A pass at which
\* exactly two colour buttons are stable-pressed drops every latched
\* colour flag unplayed.  The first pass with red not stable-pressed and
\* fewer than two colour buttons stable-pressed plays the first colour
\* still latched, one colour per pass in the order green, blue, yellow.
C37_LatchedUntilPlayed ==
    [][PassStep =>
        /\ (\/ Updated.red.currentState /\ countPressedButtons(Updated) < 2
            \/ countPressedButtons(Updated) = 3) =>
               /\ \A c \in Colours : Buttons(Dut)'[c].pressed = Updated[c].pressed
               /\ ev'.kind # "PlayStatic"
        /\ \A c \in Colours : Latched(c) => Updated[c].pressed
        /\ countPressedButtons(Updated) = 2 =>
               /\ \A c \in Colours : ~Buttons(Dut)'[c].pressed
               /\ ev'.kind = "PlayRandomLocal"
        /\ FiresFirstLatched]_vars

\* C37 witness: with the red button released again, a pass has played the
\* green sound although the green button, pressed and released while red
\* was held, is up, and the edge of blue is still latched for the next
\* pass; no three-button chord was involved.
C37_Witness ==
    /\ AfterPass
    /\ ev.kind = "PlayStatic"
    /\ ev.colour = "green"
    /\ ~Stable("green")
    /\ ~Stable("red")
    /\ Latched("blue")
    /\ chord = "none"

----------------------------------------------------------------------------
(* Claims about buttons held for seconds, checked under SpecHold *)

\* The red button has been stable-pressed for longer than BUTTON_TIMEOUT.
RedStuck == Stable("red") /\ now - stableAt["red"] > BUTTON_TIMEOUT

\* C33: a button that has been stable-pressed for longer than 5000 ms
\* (BUTTON_TIMEOUT) is taken as stuck and its level no longer decides
\* what handleButtons does: with the red button held for longer than that
\* and fewer than two colour buttons held, a pass that finds the edge of a
\* colour button latched plays that colour's sound.  The code never
\* compares a time with BUTTON_TIMEOUT: as long as red is stable-pressed
\* the pass calls handleRedButtonPress and no colour sound is played.
C33_Original ==
    (/\ AfterPass
     /\ RedStuck
     /\ Cardinality(StableColours) < 2
     /\ \E c \in Colours : Latched(c)) => ev.kind = "PlayStatic"

----------------------------------------------------------------------------
(* Claims about the samples a playback delivers, checked under SpecStream *)

\* The bytes the call of task t has read from its file so far.
ReadSoFar(t) == audioFile[t].pos - openedFile(filename[t], audioFile[t].size).pos

\* C36: when no i2s_write returns an error, every sample that playWAVFile
\* read from the file after the header has been written to the device,
\* once and in file order, when the call closes the file; a partial write
\* (bytesWritten < bytesRead) loses no sample.  The code never looks at
\* the bytes a partial write left: it yields and reads the next chunk
\* over them, so the call ends with fewer bytes written than read.
C36_Original ==
    \A t \in Tasks :
        (pc[t] = "close" /\ ~failed[t]) => delivered[t] = ReadSoFar(t)

----------------------------------------------------------------------------
(* Claims about the order of the samples, checked under SpecGain *)

\* C39: for every fixed volume from 0 to 1.2, applyVolumeControl never
\* decreases when the sample grows: a smaller sample gives a smaller or
\* equal output, below, across and above the knees at -28000 and 28000
\* and up to the clamp.  The output of the call is compared with that of
\* every smaller sample of the model and with that of the next int16_t.
C39_Monotone ==
    gsStage = "applied" =>
        /\ \A s \in Samples :
               s <= gsSample => applyVolumeControl(s, gsVolume) <= gsOut
        /\ gsSample < MaxInt16 => gsOut <= applyVolumeControl(gsSample + 1, gsVolume)

\* C39 witness: a call at the highest volume came out above the knee, a
\* smaller sample comes out above the knee too with a lower output, and
\* another sample gives the very output of the call (the curve is flat
\* between them, not rising).
C39_Witness ==
    /\ gsStage = "applied"
    /\ gsVolume = MaxGainNum
    /\ gsOut > 28000
    /\ \E s \in Samples :
           /\ s < gsSample
           /\ applyVolumeControl(s, gsVolume) > 28000
           /\ applyVolumeControl(s, gsVolume) < gsOut
    /\ \E s \in Samples : s # gsSample /\ applyVolumeControl(s, gsVolume) = gsOut

====
